---------------------------- MODULE Spec2Model ----------------------------
(***************************************************************************)
(* A model of pybubble: the process handle (process.py), the archive       *)
(* store (rootfs.py), the sandbox facade (sandbox.py) and the network      *)
(* fabric (network.py).                                                    *)
(*                                                                         *)
(* The module holds seven state machines that share no state.  Each has    *)
(* its own specification (SpecProc, SpecStream, SpecRootfs, SpecSandbox,   *)
(* SpecPty, SpecNetwork, SpecReady) in which the others stay in their idle *)
(* initial state.                                                          *)
(***************************************************************************)
EXTENDS Integers, Sequences, FiniteSets, TLC

\* Python's optional values: None is the empty tuple, a value x is <<x>>.
None == <<>>
Some(x) == <<x>>

(***************************************************************************)
(* The state.                                                              *)
(***************************************************************************)

\* The process handle of PART 1 (SandboxedProcess and its child).
VARIABLES
    child,          \* the child in the kernel: "running" | "exited"
    exitCode,       \* its exit status in the kernel: None, 0, 1 or -9 (SIGKILL)
    returncode,     \* self._process.returncode: None until the loop saw the exit
    defaultTimeout, \* self._default_timeout
    stdinPiped,     \* self._process.stdin is not None
    callOp,         \* the last call: "wait" | "communicate" | "none"
    callTimeout,    \* its timeout argument
    callCheck,      \* its check argument
    callPc,         \* where the call is (see the actions)
    outcome,        \* what the caller observed of the last call
    killCalled,     \* this call's handler ran self._process.kill()
    nCalls          \* calls made on the handle so far

procVars == <<child, exitCode, returncode, defaultTimeout, stdinPiped, callOp,
              callTimeout, callCheck, callPc, outcome, killCalled, nCalls>>

\* The output iterator of PART 2 (one stream() or stream_lines() call).
VARIABLES
    api,        \* the iterator: "stream" | "stream_lines"
    ptyMode,    \* self._master_fd is not None
    piped,      \* the names among stdout, stderr whose StreamReader exists
    chunkSize,  \* chunk_size
    written,    \* per channel, every byte the child wrote to it so far
    buf,        \* per channel, the bytes written and not yet read
    closed,     \* per channel, the child closed its end
    reader,     \* per channel, its reader: a task, or the PTY fd callback
    queue,      \* the asyncio.Queue between the readers and the iterator
    finished,   \* the iterator's count of end-of-stream sentinels
    iterPc,     \* the iterator: "new" | "running" | "done" | "closed"
    emitted,    \* the items the iterator yielded, in order
    lineBuf,    \* stream_lines in PTY mode: its local buf
    enqueued    \* the items the reader tasks have put on the queue, in order

streamVars == <<api, ptyMode, piped, chunkSize, written, buf, closed, reader,
                queue, finished, iterPc, emitted, lineBuf, enqueued>>

\* The archive store of PART 3 (rootfs.py): the host's files and the callers
\* of setup_rootfs.
VARIABLES
    archive,    \* per tarball path, the bytes of the file there (or NoFile)
    hashCache,  \* tarball_hash_cache: per tarball path, the memoized digest
    dirExists,  \* the directories that exist
    tree,       \* per directory, the members extracted into it
    rPc,        \* per caller, where its setup_rootfs call is
    rPath,      \* per caller, the rootfs argument of its call
    rTarget,    \* per caller, the rootfs_path argument of its call
    rBytes,     \* per caller, the bytes of its archive when it called
    rDir,       \* per caller, rootfs_dir
    rSrc,       \* per caller, the bytes of the tarball it opened
    rNext,      \* per caller, the index of the next member of its tarball
    rResult,    \* per caller, what its last call returned or raised
    rWrote,     \* per caller, its last call made the directory or a member
    rAgain,     \* per caller, the directory an earlier call returned for
                \* the bytes of its archive, if one did
    rCalls,     \* the calls made so far, over all callers
    nReplaced,  \* the times an archive file was replaced
    prepared    \* the (bytes, directory) pairs of the cache calls that returned

rootfsVars == <<archive, hashCache, dirExists, tree, rPc, rPath, rTarget,
                rBytes, rDir, rSrc, rNext, rResult, rWrote, rAgain, rCalls,
                nReplaced, prepared>>

\* Part 4 (sandbox.py): one Sandbox object and the host it lives on.
VARIABLES
    sbPc,                \* "new", "open" (constructed), "failed" (__init__ raised),
                         \* "deleted" (__del__ has run) or "gone" (collected)
    params,              \* the arguments __init__ was called with
    failedAt,            \* the step at which __init__ raised, or "none"
    hostDirs,            \* the directories that exist on the host
    files,               \* per work directory, the files in it
    fusermountInstalled, \* whether the host has a fusermount to run
    mounted,             \* whether the overlay is mounted
    work_dir,            \* self.work_dir
    temp_dir,            \* self._temp_dir
    tmp_dir,             \* self.tmp_dir
    rootfs_dir_tmp,      \* self.rootfs_dir_tmp
    rootfs_overlay,      \* self.rootfs_overlay: "unset", "yes" or "no"
    persist_overlayfs,   \* self.persist_overlayfs
    children,            \* the children of run() that are still running
    nSpawned,            \* the children started so far
    nCloses,             \* the calls of close() so far
    closeOutcome,        \* how the last close() ended: "none", "returned", "raised"
    filesAtClose,        \* the files of the work directory when close() was last called
    wroteSinceClose,     \* whether a child wrote in the work directory since
    closeLog,            \* what the last close() did, in the order it did it
    liveAtClose,         \* the children still running when the last close() ended
    scripts,             \* the script files run_script wrote in the scratch directory
    runOutcome           \* how the last run / run_script ended

sandboxVars == <<sbPc, params, failedAt, hostDirs, files, fusermountInstalled,
                 mounted, work_dir, temp_dir, tmp_dir, rootfs_dir_tmp,
                 rootfs_overlay, persist_overlayfs, children, nSpawned, nCloses,
                 closeOutcome, filesAtClose, wroteSinceClose, closeLog,
                 liveAtClose, scripts, runOutcome>>

\* Part 5 (sandbox.py, process.py): the launcher and the PTY of a handle.
VARIABLES
    hPc,         \* "none", "handle" (the last run gave a handle) or "raised"
    sbOverlay,   \* self.rootfs_overlay of the sandbox
    sbTmp,       \* self.tmp_dir of the sandbox (None once closed)
    openFds,     \* the PTY descriptors open in this process
    master_fd,   \* _master_fd of the handle
    spawn,       \* what the last child was spawned with
    lastCall,    \* the last call: <<"run" or "run_script", its options, command>>
    runErr,      \* what the last call raised, or "none"
    winsize,     \* the size of the terminal
    sizeResult,  \* how the last set_terminal_size ended
    nStarts,     \* calls of run / run_script
    nOpenpty,    \* calls of os.openpty
    nSpawns,     \* children spawned
    nIoctl,      \* ioctls set_terminal_size made
    nSizeCalls,  \* calls of set_terminal_size
    nClosePty,   \* calls of close_pty
    nOsClose,    \* calls of os.close made by close_pty
    badCloses,   \* of those, the ones on a descriptor that was not open
    ptyClosed    \* close_pty has been called on the handle

ptyVars == <<hPc, sbOverlay, sbTmp, openFds, master_fd, spawn, lastCall, runErr,
             winsize, sizeResult, nStarts, nOpenpty, nSpawns, nIoctl,
             nSizeCalls, nClosePty, nOsClose, badCloses, ptyClosed>>

\* Part 6 (network.py): one SandboxNetwork object.
VARIABLES
    netPc,           \* "new", "up" (constructed) or "failed" (__init__ raised)
    slirpFound,      \* slirp4netns is installed on the host
    enable_outbound, \* enable_outbound of the construction
    fabric,          \* the attributes of the object, the state of its two
                     \* children, its files in /tmp and what the last close() did
    netErr,          \* what __init__ raised, or "none"
    failedStep,      \* the statement of __init__ that raised, or "none"
    apiListening,    \* slirp4netns listens on its API socket
    nNetCloses,      \* calls of close()
    fpPc,            \* "idle", or "connecting" inside _connect_bridge_api_socket
    fpResult,        \* how the last forward_port ended, or "none"
    elapsed,         \* ticks since the connect loop began
    sleeps,          \* the delays the connect loop has slept, in ticks
    nForwards,       \* calls of forward_port
    attempts,        \* sock.connect calls of the last forward_port
    nRequests,       \* requests written to the API socket
    initLog,         \* the statements of __init__ that returned, in order
    fpArgs,          \* <<sandbox_port, host_port, proto>> of the last
                     \* forward_port, or None
    lastRequest,     \* what the last forward_port wrote to the socket, or None
    sockLog,         \* what the last turn of the connect loop, and the
                     \* exchange after it, did with its socket
    openSocks        \* sockets of forward_port that are open

netVars == <<netPc, slirpFound, enable_outbound, fabric, netErr, failedStep,
             apiListening, nNetCloses, fpPc, fpResult, elapsed, sleeps,
             nForwards, attempts, nRequests, initLog, fpArgs, lastRequest,
             sockLog, openSocks>>

\* Part 7 (network.py): one call of _ensure_network_ready_blocking.
VARIABLES
    rwPc,            \* "idle", or the next statement of the loop: "poll",
                     \* "check", "deadline", "sleep"
    rwTimeout,       \* timeout of the call, in ticks
    rwElapsed,       \* ticks since the call began
    watchdog,        \* "running" or "exited"
    nsPaths,         \* which of the two namespace paths exist
    nsReady,         \* the namespaces are made and root is mapped
    last_error,      \* last_error of the call
    rwResult,        \* how the last call ended, or "none"
    turnLog,         \* what the current turn of the loop has done
    nReadyCalls      \* calls made

readyVars == <<rwPc, rwTimeout, rwElapsed, watchdog, nsPaths, nsReady,
               last_error, rwResult, turnLog, nReadyCalls>>

vars == <<procVars, streamVars, rootfsVars, sandboxVars, ptyVars, netVars,
          readyVars>>

\* What the actions of one part leave alone: the state of the other parts.
notProc == <<streamVars, rootfsVars, sandboxVars, ptyVars, netVars, readyVars>>
notStream == <<procVars, rootfsVars, sandboxVars, ptyVars, netVars, readyVars>>
notRootfs == <<procVars, streamVars, sandboxVars, ptyVars, netVars, readyVars>>
notSandbox == <<procVars, streamVars, rootfsVars, ptyVars, netVars, readyVars>>
notPty == <<procVars, streamVars, rootfsVars, sandboxVars, netVars, readyVars>>
notNetwork == <<procVars, streamVars, rootfsVars, sandboxVars, ptyVars, readyVars>>
notReady == <<procVars, streamVars, rootfsVars, sandboxVars, ptyVars, netVars>>


(***************************************************************************)
(* PART 1.  SandboxedProcess.wait / communicate (process.py 92-119,        *)
(* 278-308).                                                               *)
(***************************************************************************)
\* Calls made on one handle, one after the other.
MaxCalls == 2

\* The timeouts a caller passes: none, or a number of seconds (zero too).
Timeouts == {None, Some(0), Some(1), Some(2)}

ProcInit ==
    /\ child = "running"
    /\ exitCode = None
    /\ returncode = None
    /\ defaultTimeout \in Timeouts
    /\ stdinPiped \in BOOLEAN
    /\ callOp = "none"
    /\ callTimeout = None
    /\ callCheck = FALSE
    /\ callPc = "idle"
    /\ outcome = "none"
    /\ killCalled = FALSE
    /\ nCalls = 0

ProcIdle ==
    /\ child = "running"
    /\ exitCode = None
    /\ returncode = None
    /\ defaultTimeout = None
    /\ stdinPiped = FALSE
    /\ callOp = "none"
    /\ callTimeout = None
    /\ callCheck = FALSE
    /\ callPc = "idle"
    /\ outcome = "none"
    /\ killCalled = FALSE
    /\ nCalls = 0

\* A _resolve_timeout that prefers the handle's default.
ResolveTimeoutDefaultFirst(timeout) ==
    IF defaultTimeout # None THEN defaultTimeout ELSE timeout

\* _resolve_timeout: the per-call value, else the handle's default.
ResolveTimeout(timeout) == IF timeout = None THEN defaultTimeout ELSE timeout

\* The effective timeout of the call in progress.
EffectiveTimeout == ResolveTimeout(callTimeout)

\* wait(timeout, check) is called and suspends in _wait_with_timeout.
CallWait(timeout, check) ==
    /\ callPc \in {"idle", "done"}
    /\ nCalls < MaxCalls
    /\ callOp' = "wait"
    /\ callTimeout' = timeout
    /\ callCheck' = check
    /\ callPc' = "awaiting"
    /\ outcome' = "none"
    /\ killCalled' = FALSE
    /\ nCalls' = nCalls + 1
    /\ UNCHANGED <<child, exitCode, returncode, defaultTimeout, stdinPiped>>
    /\ UNCHANGED notProc

\* communicate(input, timeout, check): refused at once when input is given to a
\* handle without a stdin pipe, else it suspends in _communicate_with_timeout.
CallCommunicate(hasInput, timeout, check) ==
    /\ callPc \in {"idle", "done"}
    /\ nCalls < MaxCalls
    /\ callOp' = "communicate"
    /\ callTimeout' = timeout
    /\ callCheck' = check
    /\ killCalled' = FALSE
    /\ nCalls' = nCalls + 1
    /\ IF hasInput /\ ~stdinPiped
         THEN callPc' = "done" /\ outcome' = "StdinUnavailable"
         ELSE callPc' = "awaiting" /\ outcome' = "none"
    /\ UNCHANGED <<child, exitCode, returncode, defaultTimeout, stdinPiped>>
    /\ UNCHANGED notProc

\* The child exits by itself, with status 0 or 1.
ChildExit ==
    /\ child = "running"
    /\ \E code \in {0, 1} : exitCode' = Some(code)
    /\ child' = "exited"
    /\ UNCHANGED <<returncode, defaultTimeout, stdinPiped, callOp, callTimeout,
                   callCheck, callPc, outcome, killCalled, nCalls>>
    /\ UNCHANGED notProc

\* The event loop's child watcher reports the exit: returncode is set.
LoopReaps ==
    /\ child = "exited"
    /\ returncode = None
    /\ returncode' = exitCode
    /\ UNCHANGED <<child, exitCode, defaultTimeout, stdinPiped, callOp,
                   callTimeout, callCheck, callPc, outcome, killCalled, nCalls>>
    /\ UNCHANGED notProc

\* The awaited process.wait() / process.communicate() completes: the call
\* returns, or raises for check=True and a non-zero exit (95-96, 113-118).
AwaitCompletes ==
    /\ callPc = "awaiting"
    /\ returncode # None
    /\ callPc' = "done"
    /\ outcome' = IF callCheck /\ returncode # Some(0) THEN "CheckFailed" ELSE "returned"
    /\ UNCHANGED <<child, exitCode, returncode, defaultTimeout, stdinPiped,
                   callOp, callTimeout, callCheck, killCalled, nCalls>>
    /\ UNCHANGED notProc

\* asyncio.wait_for gives up: the inner await is cancelled and TimeoutError
\* reaches the except clause (287, 305).  Only a call with an effective
\* timeout has a timer.
TimerExpires ==
    /\ callPc = "awaiting"
    /\ EffectiveTimeout # None
    /\ callPc' = "handler"
    /\ UNCHANGED <<child, exitCode, returncode, defaultTimeout, stdinPiped,
                   callOp, callTimeout, callCheck, outcome, killCalled, nCalls>>
    /\ UNCHANGED notProc

\* self._process.kill() in the handler (288, 306).  A running child gets
\* SIGKILL.  A child that exited unseen is polled and not signalled.  Once the
\* loop has seen the exit, the transport may already be closed, and then kill()
\* raises ProcessLookupError, which leaves the call.
HandlerKills ==
    /\ callPc = "handler"
    /\ killCalled' = TRUE
    /\ \/ /\ child = "running"
          /\ child' = "exited"
          /\ exitCode' = Some(-9)
          /\ callPc' = "reaping"
          /\ UNCHANGED outcome
       \/ /\ child = "exited"
          /\ callPc' = "reaping"
          /\ UNCHANGED <<child, exitCode, outcome>>
       \/ /\ returncode # None
          /\ callPc' = "done"
          /\ outcome' = "ProcessLookupError"
          /\ UNCHANGED <<child, exitCode>>
    /\ UNCHANGED <<returncode, defaultTimeout, stdinPiped, callOp, callTimeout,
                   callCheck, nCalls>>
    /\ UNCHANGED notProc

\* HandlerAwaitsAndRaises without its await: TimeoutError is raised right
\* after kill(), before the child was awaited.
HandlerRaisesUnreaped ==
    /\ callPc = "reaping"
    /\ callPc' = "done"
    /\ outcome' = "Timeout"
    /\ UNCHANGED <<child, exitCode, returncode, defaultTimeout, stdinPiped,
                   callOp, callTimeout, callCheck, killCalled, nCalls>>
    /\ UNCHANGED notProc

\* await self._process.wait() in the handler returns, and TimeoutError is
\* raised to the caller (289-290, 307-308).
HandlerAwaitsAndRaises ==
    /\ callPc = "reaping"
    /\ returncode # None
    /\ callPc' = "done"
    /\ outcome' = "Timeout"
    /\ UNCHANGED <<child, exitCode, returncode, defaultTimeout, stdinPiped,
                   callOp, callTimeout, callCheck, killCalled, nCalls>>
    /\ UNCHANGED notProc

\* The task awaiting the call is cancelled.  CancelledError is raised at the
\* await the task is suspended in; neither method catches it (only
\* asyncio.TimeoutError is caught), so it leaves the call as it is.
TaskCancelled ==
    /\ callPc \in {"awaiting", "reaping"}
    /\ callPc' = "done"
    /\ outcome' = "Cancelled"
    /\ UNCHANGED <<child, exitCode, returncode, defaultTimeout, stdinPiped,
                   callOp, callTimeout, callCheck, killCalled, nCalls>>
    /\ UNCHANGED notProc

\* C36: the timeout in force for a wait() or communicate() is the one given
\* to the call when one is given, zero included, and the default of the
\* handle otherwise; and a call made with neither never gets to the timeout
\* handler: it does not kill the child and raises no timeout error.
C36_PerCallTimeoutOverridesDefault ==
    callOp # "none" =>
        /\ callTimeout # None => EffectiveTimeout = callTimeout
        /\ callTimeout = None => EffectiveTimeout = defaultTimeout
        /\ (callTimeout = None /\ defaultTimeout = None) =>
              /\ callPc \notin {"handler", "reaping"}
              /\ ~killCalled
              /\ outcome \notin {"Timeout", "ProcessLookupError"}
        /\ (callPc \in {"handler", "reaping"} \/ outcome = "Timeout" \/ killCalled) =>
              EffectiveTimeout # None

\* A wait(timeout=0) on a handle whose default is 2 s killed the child and
\* raised the timeout error.
C36_Witness ==
    /\ callOp = "wait"
    /\ callTimeout = Some(0)
    /\ defaultTimeout = Some(2)
    /\ outcome = "Timeout"
    /\ killCalled

NextProc ==
    \/ \E t \in Timeouts, c \in BOOLEAN : CallWait(t, c)
    \/ \E i \in BOOLEAN, t \in Timeouts, c \in BOOLEAN : CallCommunicate(i, t, c)
    \/ ChildExit
    \/ LoopReaps
    \/ AwaitCompletes
    \/ TimerExpires
    \/ HandlerKills
    \/ HandlerAwaitsAndRaises
    \/ TaskCancelled

(***************************************************************************)
(* Claims about wait / communicate, checked under SpecProc.                *)
(***************************************************************************)

C2_CancelKillsThenReaps ==
    outcome = "Cancelled" => child = "exited" /\ returncode # None

(***************************************************************************)
(* PART 2.  SandboxedProcess.stream / stream_lines / _pty_chunks           *)
(* (process.py 121-268), with decode=False and include_stream=True.        *)
(***************************************************************************)
\* Bytes a child writes, over all its channels.
MaxOut == 3
\* The largest chunk_size a caller passes.
MaxChunk == 2
\* End-of-file reads of the PTY master that may wait in the queue.
MaxPtyEof == 2
\* The StreamReader's limit (asyncio's default of 2**16 bytes, which
\* create_subprocess_exec is called with), scaled to the model's few bytes.
StreamLimit == 2

NL == "\n"
Byte == {"x", NL}
Names == {"stdout", "stderr"}
Chans == {"stdout", "stderr", "pty"}

\* The channels the iterator reads: the PTY master, else the piped streams.
Active == IF ptyMode THEN {"pty"} ELSE piped

\* The name a channel's chunks carry: the PTY's chunks are named stdout.
LabelOf(c) == IF c = "pty" THEN "stdout" ELSE c

Min(a, b) == IF a <= b THEN a ELSE b
Take(s, n) == SubSeq(s, 1, Min(n, Len(s)))
Drop(s, n) == SubSeq(s, n + 1, Len(s))

\* bytes.find(b"\n"): the 0-based index of the first newline, or -1.
Find(s) ==
    IF \E i \in 1..Len(s) : s[i] = NL
      THEN (CHOOSE i \in 1..Len(s) : s[i] = NL /\ \A j \in 1..(i - 1) : s[j] # NL) - 1
      ELSE -1

\* The loop of stream_lines in PTY mode (228-230): the complete lines of b,
\* each with its newline, and what is left of b.
RECURSIVE SplitLines(_)
SplitLines(b) ==
    IF Find(b) = -1
      THEN <<<<>>, b>>
      ELSE LET r == SplitLines(Drop(b, Find(b) + 1))
           IN  <<<<Take(b, Find(b) + 1)>> \o r[1], r[2]>>

\* _format_chunk with decode=False and include_stream=True: (name, data).
FormatChunk(name, data) == <<name, data>>

StreamInit ==
    /\ api \in {"stream", "stream_lines"}
    /\ ptyMode \in BOOLEAN
    /\ piped \in SUBSET Names
    /\ ptyMode => piped = {}
    /\ chunkSize \in 1..MaxChunk
    /\ written = [c \in Chans |-> <<>>]
    /\ buf = [c \in Chans |-> <<>>]
    /\ closed = [c \in Chans |-> FALSE]
    /\ reader = [c \in Chans |-> "none"]
    /\ queue = <<>>
    /\ finished = 0
    /\ iterPc = "new"
    /\ emitted = <<>>
    /\ lineBuf = <<>>
    /\ enqueued = <<>>

StreamIdle ==
    /\ api = "stream"
    /\ ptyMode = FALSE
    /\ piped = {}
    /\ chunkSize = 1
    /\ written = [c \in Chans |-> <<>>]
    /\ buf = [c \in Chans |-> <<>>]
    /\ closed = [c \in Chans |-> FALSE]
    /\ reader = [c \in Chans |-> "none"]
    /\ queue = <<>>
    /\ finished = 0
    /\ iterPc = "new"
    /\ emitted = <<>>
    /\ lineBuf = <<>>
    /\ enqueued = <<>>

\* The bytes the child wrote so far, over all channels.
TotalWritten == Len(written["stdout"]) + Len(written["stderr"]) + Len(written["pty"])

\* The child writes one byte to a channel the handle reads.  (What a child
\* writes after the iterator was closed is not followed.)
ChildWrite(c, b) ==
    /\ c \in Active
    /\ ~closed[c]
    /\ iterPc # "closed"
    /\ TotalWritten < MaxOut
    /\ written' = [written EXCEPT ![c] = Append(@, b)]
    /\ buf' = [buf EXCEPT ![c] = Append(@, b)]
    /\ UNCHANGED <<api, ptyMode, piped, chunkSize, closed, reader, queue,
                   finished, iterPc, emitted, lineBuf, enqueued>>
    /\ UNCHANGED notStream

\* The child closes a channel (or exits): end of file follows the buffered bytes.
ChildClose(c) ==
    /\ c \in Active
    /\ ~closed[c]
    /\ iterPc # "closed"
    /\ closed' = [closed EXCEPT ![c] = TRUE]
    /\ UNCHANGED <<api, ptyMode, piped, chunkSize, written, buf, reader, queue,
                   finished, iterPc, emitted, lineBuf, enqueued>>
    /\ UNCHANGED notStream

\* The first step of the iterator (171-195, 224-254): in PTY mode the fd
\* callback is registered; with no piped stream the iterator returns at once;
\* else one reader task per piped stream is created.
IterStart ==
    /\ iterPc = "new"
    /\ IF ptyMode
         THEN /\ reader' = [reader EXCEPT !["pty"] = "running"]
              /\ iterPc' = "running"
         ELSE IF piped = {}
           THEN /\ iterPc' = "done"
                /\ UNCHANGED reader
           ELSE /\ reader' = [c \in Chans |-> IF c \in piped THEN "running" ELSE "none"]
                /\ iterPc' = "running"
    /\ UNCHANGED <<api, ptyMode, piped, chunkSize, written, buf, closed, queue,
                   finished, emitted, lineBuf, enqueued>>
    /\ UNCHANGED notStream

\* await queue.put(item) (189-190, 248-249): the item goes to the end of the
\* queue.
Put(item) ==
    /\ queue' = Append(queue, item)
    /\ enqueued' = Append(enqueued, item)

\* One turn of stream()'s _reader (184-190): read(chunk_size) returns the
\* buffered bytes, at most chunk_size of them, which are queued under the
\* stream's name; at end of file the sentinel is queued and the task ends.
ChunkReader(c) ==
    /\ api = "stream"
    /\ c \in Names
    /\ reader[c] = "running"
    /\ \/ /\ buf[c] # <<>>
          /\ Put(<<c, Some(Take(buf[c], chunkSize))>>)
          /\ buf' = [buf EXCEPT ![c] = Drop(@, chunkSize)]
          /\ UNCHANGED reader
       \/ /\ buf[c] = <<>>
          /\ closed[c]
          /\ Put(<<c, None>>)
          /\ reader' = [reader EXCEPT ![c] = "done"]
          /\ UNCHANGED buf
    /\ UNCHANGED <<api, ptyMode, piped, chunkSize, written, closed, finished,
                   iterPc, emitted, lineBuf>>
    /\ UNCHANGED notStream

\* One turn of stream_lines()'s _reader (243-249) around StreamReader.readline:
\*  - a newline at 0-based index i <= limit: the line up to it is queued;
\*  - a newline further than the limit: the bytes up to it are dropped and
\*    readline raises ValueError, which ends the task with no sentinel queued;
\*  - no newline and more than limit bytes buffered: the buffer is cleared and
\*    readline raises ValueError likewise;
\*  - no newline, end of file: the rest is queued if it is not empty, else the
\*    sentinel is queued and the task ends.
LineReader(c) ==
    /\ api = "stream_lines"
    /\ c \in Names
    /\ reader[c] = "running"
    /\ LET i == Find(buf[c]) IN
       \/ /\ i # -1
          /\ i <= StreamLimit
          /\ Put(<<c, Some(Take(buf[c], i + 1))>>)
          /\ buf' = [buf EXCEPT ![c] = Drop(@, i + 1)]
          /\ UNCHANGED reader
       \/ /\ i # -1
          /\ i > StreamLimit
          /\ buf' = [buf EXCEPT ![c] = Drop(@, i + 1)]
          /\ reader' = [reader EXCEPT ![c] = "failed"]
          /\ UNCHANGED <<queue, enqueued>>
       \/ /\ i = -1
          /\ Len(buf[c]) > StreamLimit
          /\ buf' = [buf EXCEPT ![c] = <<>>]
          /\ reader' = [reader EXCEPT ![c] = "failed"]
          /\ UNCHANGED <<queue, enqueued>>
       \/ /\ i = -1
          /\ Len(buf[c]) <= StreamLimit
          /\ closed[c]
          /\ IF buf[c] # <<>>
               THEN /\ Put(<<c, Some(buf[c])>>)
                    /\ buf' = [buf EXCEPT ![c] = <<>>]
                    /\ UNCHANGED reader
               ELSE /\ Put(<<c, None>>)
                    /\ reader' = [reader EXCEPT ![c] = "done"]
                    /\ UNCHANGED buf
    /\ UNCHANGED <<api, ptyMode, piped, chunkSize, written, closed, finished,
                   iterPc, emitted, lineBuf>>
    /\ UNCHANGED notStream

\* The number of end-of-file reads waiting in the queue.
RECURSIVE Sentinels(_)
Sentinels(q) ==
    IF q = <<>> THEN 0
    ELSE (IF Head(q)[2] = None THEN 1 ELSE 0) + Sentinels(Tail(q))

\* _pty_chunks._on_readable (141-146): the loop calls it while the master fd
\* is readable.  os.read returns the buffered bytes, at most chunk_size; once
\* the slave is closed and the buffer empty it returns nothing or raises
\* OSError, and None is queued either way.
PtyReadable ==
    /\ ptyMode
    /\ reader["pty"] = "running"
    /\ \/ /\ buf["pty"] # <<>>
          /\ queue' = Append(queue, <<"pty", Some(Take(buf["pty"], chunkSize))>>)
          /\ buf' = [buf EXCEPT !["pty"] = Drop(@, chunkSize)]
       \/ /\ buf["pty"] = <<>>
          /\ closed["pty"]
          /\ Sentinels(queue) < MaxPtyEof
          /\ queue' = Append(queue, <<"pty", None>>)
          /\ UNCHANGED buf
    /\ UNCHANGED <<api, ptyMode, piped, chunkSize, written, closed, reader,
                   finished, iterPc, emitted, lineBuf, enqueued>>
    /\ UNCHANGED notStream

\* The finally clause of the pipe-mode iterators (205-209, 264-268): every
\* reader task is cancelled and awaited.  A task that has ended stays as it is.
CancelReaders ==
    [c \in Chans |-> IF reader[c] = "running" THEN "cancelled" ELSE reader[c]]

\* The loop condition with a constant in the place of len(tasks): the loop
\* ends with the first sentinel.
LoopGoesOnToFirstSentinel(n) == n < 1

\* The loop condition of the pipe-mode iterators (199, 258):
\* finished < len(tasks), one task per piped stream.
LoopGoesOn(n) == n < Cardinality(piped)

\* A queue that hands out the item put last.
QueueGetNewest(q) == <<q[Len(q)], SubSeq(q, 1, Len(q) - 1)>>

\* name, data = await queue.get() (200, 259): the item put first, and the
\* queue without it.
QueueGet(q) == <<Head(q), Tail(q)>>

\* One turn of the pipe-mode loop (199-204, 258-263): the head of the queue is
\* taken; a sentinel is counted, and the loop ends with the last one; a chunk
\* is yielded.
PipeConsume ==
    /\ ~ptyMode
    /\ iterPc = "running"
    /\ queue # <<>>
    /\ queue' = QueueGet(queue)[2]
    /\ LET name == QueueGet(queue)[1][1]
           item == QueueGet(queue)[1][2]
       IN  IF item = None
             THEN /\ finished' = finished + 1
                  /\ UNCHANGED emitted
                  /\ IF LoopGoesOn(finished + 1)
                       THEN UNCHANGED <<iterPc, reader>>
                       ELSE /\ iterPc' = "done"
                            /\ reader' = CancelReaders
             ELSE /\ emitted' = Append(emitted, FormatChunk(name, item[1]))
                  /\ UNCHANGED <<finished, iterPc, reader>>
    /\ UNCHANGED <<api, ptyMode, piped, chunkSize, written, buf, closed,
                   lineBuf, enqueued>>
    /\ UNCHANGED notStream

\* The items stream_lines yields for a sequence of lines, all named stdout.
PtyLines(lines) == [k \in 1..Len(lines) |-> FormatChunk("stdout", lines[k])]

\* One turn of the PTY-mode loop (150-156 under 172-174 and 225-233).  None
\* ends _pty_chunks, whose finally clause removes the fd callback; stream_lines
\* then yields what is left in its buf if that is not empty.  A chunk is
\* yielded by stream(); stream_lines adds it to buf and yields the complete
\* lines.
PtyConsume ==
    /\ ptyMode
    /\ iterPc = "running"
    /\ queue # <<>>
    /\ queue' = Tail(queue)
    /\ LET item == Head(queue)[2] IN
       IF item = None
         THEN /\ iterPc' = "done"
              /\ reader' = [reader EXCEPT !["pty"] = "removed"]
              /\ emitted' = IF api = "stream_lines" /\ lineBuf # <<>>
                              THEN Append(emitted, FormatChunk("stdout", lineBuf))
                              ELSE emitted
              /\ lineBuf' = <<>>
         ELSE /\ UNCHANGED <<iterPc, reader>>
              /\ IF api = "stream"
                   THEN /\ emitted' = Append(emitted, FormatChunk("stdout", item[1]))
                        /\ UNCHANGED lineBuf
                   ELSE LET r == SplitLines(lineBuf \o item[1])
                        IN  /\ emitted' = emitted \o PtyLines(r[1])
                            /\ lineBuf' = r[2]
    /\ UNCHANGED <<api, ptyMode, piped, chunkSize, written, buf, closed,
                   finished, enqueued>>
    /\ UNCHANGED notStream

\* Where the iterator stands when it is closed: at its yield (the consumer
\* has an item and calls aclose) or at its queue.get() (the consuming task is
\* cancelled while it waits for the next item).
IterClosePoints == {"yield", "get"}

\* The consumer leaves the loop early and closes the iterator, or is
\* cancelled.  In pipe mode the finally clause of the iterator runs
\* (205-209, 264-268).  In PTY mode the finally clause that removes the fd
\* callback is that of the inner generator _pty_chunks (155-156): it runs when
\* the iterator is cancelled inside _pty_chunks at queue.get(); an iterator
\* closed at its own yield (173, 231) leaves _pty_chunks suspended with its
\* callback in place.
IterClose(at) ==
    /\ iterPc = "running"
    /\ at = "yield" => emitted # <<>>
    /\ iterPc' = "closed"
    /\ reader' = IF ptyMode
                   THEN (IF at = "get" THEN [reader EXCEPT !["pty"] = "removed"]
                                       ELSE reader)
                   ELSE CancelReaders
    /\ UNCHANGED <<api, ptyMode, piped, chunkSize, written, buf, closed, queue,
                   finished, emitted, lineBuf, enqueued>>
    /\ UNCHANGED notStream

\* The event loop finalizes the _pty_chunks generator that a closed iterator
\* left suspended: its finally clause removes the fd callback (155-156).
PtyChunksFinalized ==
    /\ ptyMode
    /\ iterPc = "closed"
    /\ reader["pty"] = "running"
    /\ reader' = [reader EXCEPT !["pty"] = "removed"]
    /\ UNCHANGED <<api, ptyMode, piped, chunkSize, written, buf, closed, queue,
                   finished, iterPc, emitted, lineBuf, enqueued>>
    /\ UNCHANGED notStream

(***************************************************************************)
(* Claims about stream / stream_lines, checked under SpecStream.           *)
(***************************************************************************)

\* The bytes of the items named name, concatenated in the order of the items.
RECURSIVE DataOf(_, _)
DataOf(items, name) ==
    IF items = <<>> THEN <<>>
    ELSE (IF Head(items)[1] = name THEN Head(items)[2] ELSE <<>>)
           \o DataOf(Tail(items), name)

\* The items named name, in order.
ItemsOf(items, name) == SelectSeq(items, LAMBDA it : it[1] = name)

IsPrefix(a, b) == Len(a) <= Len(b) /\ a = SubSeq(b, 1, Len(a))

\* The iterator will yield nothing more: it has ended, or it waits on an empty
\* queue that no reader will fill again.
NothingMoreToCome ==
    \/ iterPc = "done"
    \/ /\ iterPc = "running"
       /\ ~ptyMode
       /\ queue = <<>>
       /\ \A c \in piped : reader[c] \in {"done", "failed"}

\* C3: in pipe mode the chunks stream() yields under one name are, in order,
\* the bytes the child wrote to that stream: at any time a prefix of them, and
\* all of them once the iterator has ended.
C3_StreamKeepsEachStream ==
    (api = "stream" /\ ~ptyMode) =>
        \A n \in Names :
            /\ IsPrefix(DataOf(emitted, n), written[n])
            /\ iterPc = "done" => DataOf(emitted, n) = written[n]

\* C3's case: stdout and stderr were both piped and written, and the iterator
\* ended after yielding a stderr chunk between two stdout chunks.
C3_Witness ==
    /\ api = "stream"
    /\ ~ptyMode
    /\ piped = Names
    /\ iterPc = "done"
    /\ Len(emitted) = 3
    /\ emitted[1][1] = "stdout"
    /\ emitted[2][1] = "stderr"
    /\ emitted[3][1] = "stdout"

\* A line as stream_lines yields it before the end of its stream: its one
\* newline is its last byte.
IsCompleteLine(d) == d # <<>> /\ Find(d) = Len(d) - 1

\* C4: for stream_lines without decoding, per piped stream and for the PTY:
\* the items yielded are never empty, each but the last of its stream is a
\* complete line, their concatenation is a prefix of the bytes written, and it
\* is all of them once nothing more is to come.
C4_LinesRebuildTheStream ==
    api = "stream_lines" =>
        \A c \in Active :
            LET its == ItemsOf(emitted, LabelOf(c)) IN
            /\ \A k \in 1..Len(its) :
                  /\ its[k][2] # <<>>
                  /\ Find(its[k][2]) \in {-1, Len(its[k][2]) - 1}
                  /\ k < Len(its) => IsCompleteLine(its[k][2])
            /\ IsPrefix(DataOf(emitted, LabelOf(c)), written[c])
            /\ (NothingMoreToCome /\ closed[c]) =>
                  DataOf(emitted, LabelOf(c)) = written[c]

\* C5: the iterator of stream() and stream_lines() ends.  With no piped stream
\* and no PTY it ends at once with no item.  In pipe mode it ends only when
\* every piped stream is at end of file with nothing read and unyielded, and
\* it does end then: it is never left waiting on an empty queue after the
\* child closed every piped stream and every reader has ended.  In PTY mode it ends only at the end of file (or read
\* error) of the PTY master.
C5_IteratorEnds ==
    /\ (~ptyMode /\ piped = {} /\ iterPc # "new") =>
          iterPc = "done" /\ emitted = <<>>
    /\ (~ptyMode /\ piped # {} /\ iterPc = "done") =>
          /\ queue = <<>>
          /\ \A c \in piped : closed[c] /\ buf[c] = <<>>
    /\ (~ptyMode /\ piped # {} /\ iterPc = "running") =>
          ~(queue = <<>> /\ \A c \in piped :
                              closed[c] /\ reader[c] \in {"done", "failed"})
    /\ (ptyMode /\ iterPc = "done") =>
          closed["pty"] /\ buf["pty"] = <<>>

\* C37: once the iteration of stream() or stream_lines() has ended, at end
\* of file or because the iterator was closed or its task cancelled, no
\* reader of it is left: every reader task has ended or been cancelled, and
\* in PTY mode the callback on the master fd has been removed.
C37_NoReaderOutlivesIterator ==
    iterPc \in {"done", "closed"} =>
        \A c \in Chans : reader[c] \in {"none", "done", "failed", "cancelled", "removed"}

\* What the iterator yields for a sequence of queued items: one formatted
\* chunk per data item, in order, and nothing for a sentinel.
RECURSIVE YieldedFor(_)
YieldedFor(items) ==
    IF items = <<>> THEN <<>>
    ELSE (IF Head(items)[2] = None
            THEN <<>>
            ELSE <<FormatChunk(Head(items)[1], Head(items)[2][1])>>)
           \o YieldedFor(Tail(items))

\* C35: in pipe mode the iterator has taken the items the two reader tasks
\* put on the queue in the order they were put, none left out and none
\* taken twice: what it has yielded is, chunk by chunk, the data items among
\* the first ones put, the sentinels among them are the ones it has counted,
\* the rest is still queued in the same order, and a reader's sentinel is
\* put, and so taken, after every data item of that reader.
C35_YieldedInEnqueueOrder ==
    ~ptyMode =>
        LET n == Len(emitted) + finished
            taken == SubSeq(enqueued, 1, n)
        IN  /\ n <= Len(enqueued)
            /\ queue = SubSeq(enqueued, n + 1, Len(enqueued))
            /\ emitted = YieldedFor(taken)
            /\ Sentinels(taken) = finished
            /\ \A i, j \in 1..Len(enqueued) :
                  (enqueued[i][2] = None /\ enqueued[j][1] = enqueued[i][1]
                                         /\ enqueued[j][2] # None) => j < i

\* stream_lines on both pipes ended after it yielded a stderr line between
\* two stdout lines and counted both sentinels.
C35_Witness ==
    /\ api = "stream_lines"
    /\ ~ptyMode
    /\ iterPc = "done"
    /\ finished = 2
    /\ Len(enqueued) = 5
    /\ Len(emitted) = 3
    /\ emitted[1][1] = "stdout"
    /\ emitted[2][1] = "stderr"
    /\ emitted[3][1] = "stdout"

NextStream ==
    \/ \E c \in Chans, b \in Byte : ChildWrite(c, b)
    \/ \E c \in Chans : ChildClose(c)
    \/ IterStart
    \/ \E c \in Names : ChunkReader(c)
    \/ \E c \in Names : LineReader(c)
    \/ PtyReadable
    \/ PipeConsume
    \/ PtyConsume
    \/ \E at \in IterClosePoints : IterClose(at)
    \/ PtyChunksFinalized

(***************************************************************************)
(* PART 3.  setup_rootfs and its helpers (rootfs.py 7-89).                 *)
(***************************************************************************)

\* Concurrent callers of setup_rootfs (threads of one process: they share
\* tarball_hash_cache).
Callers == {1, 2}
\* Calls of setup_rootfs, over all callers.
MaxSetupCalls == 3
\* Times an archive file is replaced by other bytes.
MaxReplace == 1

\* The tarball paths callers pass.
TarPaths == {"a.tar.zst"}

\* The archives: each is named by its bytes.  "safe" holds two safe members,
\* "dotdot" a member with a '..' component between two safe ones, "abs" an
\* absolute member after a safe one, and "symlink" a symbolic link named etc
\* to the absolute path /etc, followed by a file under etc.
Archives == {"safe", "dotdot", "abs", "symlink"}
NoFile == "no file"

\* The member names of an archive, in archive order, each as its Path.parts.
Members(bytes) ==
    CASE bytes = "safe"   -> << <<"bin", "sh">>, <<"etc", "passwd">> >>
      [] bytes = "dotdot" -> << <<"bin", "sh">>, <<"..", "etc", "passwd">>, <<"etc", "hosts">> >>
      [] bytes = "abs"    -> << <<"bin", "sh">>, <<"/", "etc", "passwd">> >>
      [] bytes = "symlink" -> << <<"bin", "sh">>, <<"etc">>, <<"etc", "passwd">> >>

\* TarInfo.linkname of member k as its Path.parts, for a symbolic link; None
\* for a file.
LinkName(bytes, k) ==
    IF bytes = "symlink" /\ k = 2 THEN Some(<<"/", "etc">>) ELSE None

\* hashlib.sha256(bytes).hexdigest(): distinct bytes have distinct digests.
Sha256(bytes) ==
    CASE bytes = "safe"   -> "5a3e"
      [] bytes = "dotdot" -> "c71f"
      [] bytes = "abs"    -> "e902"
      [] bytes = "symlink" -> "9b0d"

\* _get_cache_dir() / tarball_hash.
CacheDir(digest) == <<"~/.cache/pybubble/rootfs", digest>>
\* The rootfs_path a caller may pass.
ExplicitDir == <<"/srv", "rootfs">>
Dirs == {CacheDir(Sha256(b)) : b \in Archives} \cup {ExplicitDir}

\* Path.is_absolute() and ".." in Path.parts (41).
IsAbsolute(name) == name # <<>> /\ name[1] = "/"
HasDotDot(name) == \E i \in 1..Len(name) : name[i] = ".."
UnsafeMember(name) == IsAbsolute(name) \/ HasDotDot(name)

\* The complete extracted tree of an archive: every member of it.
FullTree(bytes) == {<<bytes, k>> : k \in 1..Len(Members(bytes))}

\* The directory a caller passes as rootfs_path may be there already, empty.
RootfsInit ==
    /\ archive \in [TarPaths -> Archives \cup {NoFile}]
    /\ hashCache = [t \in TarPaths |-> None]
    /\ dirExists \in {{}, {ExplicitDir}}
    /\ tree = [d \in Dirs |-> {}]
    /\ rPc = [p \in Callers |-> "idle"]
    /\ rPath = [p \in Callers |-> "a.tar.zst"]
    /\ rTarget = [p \in Callers |-> None]
    /\ rBytes = [p \in Callers |-> NoFile]
    /\ rDir = [p \in Callers |-> None]
    /\ rSrc = [p \in Callers |-> NoFile]
    /\ rNext = [p \in Callers |-> 1]
    /\ rResult = [p \in Callers |-> <<"none">>]
    /\ rWrote = [p \in Callers |-> FALSE]
    /\ rAgain = [p \in Callers |-> None]
    /\ rCalls = 0
    /\ nReplaced = 0
    /\ prepared = {}

RootfsIdle ==
    /\ archive = [t \in TarPaths |-> NoFile]
    /\ hashCache = [t \in TarPaths |-> None]
    /\ dirExists = {}
    /\ tree = [d \in Dirs |-> {}]
    /\ rPc = [p \in Callers |-> "idle"]
    /\ rPath = [p \in Callers |-> "a.tar.zst"]
    /\ rTarget = [p \in Callers |-> None]
    /\ rBytes = [p \in Callers |-> NoFile]
    /\ rDir = [p \in Callers |-> None]
    /\ rSrc = [p \in Callers |-> NoFile]
    /\ rNext = [p \in Callers |-> 1]
    /\ rResult = [p \in Callers |-> <<"none">>]
    /\ rWrote = [p \in Callers |-> FALSE]
    /\ rAgain = [p \in Callers |-> None]
    /\ rCalls = 0
    /\ nReplaced = 0
    /\ prepared = {}

\* _compute_tarball_hash (9-20): the memoized digest of the path if there is
\* one, else the digest of the file's bytes.
ComputeTarballHash(path) ==
    IF hashCache[path] # None THEN hashCache[path][1] ELSE Sha256(archive[path])

\* setup_rootfs up to the choice of rootfs_dir (69-77): FileNotFoundError for
\* a missing tarball; else the cache directory of the (memoized) digest, or
\* the rootfs_path given.
SetupRootfs(p, path, target) ==
    /\ rPc[p] = "idle"
    /\ rCalls < MaxSetupCalls
    /\ rCalls' = rCalls + 1
    /\ rPath' = [rPath EXCEPT ![p] = path]
    /\ rTarget' = [rTarget EXCEPT ![p] = target]
    /\ rBytes' = [rBytes EXCEPT ![p] = archive[path]]
    /\ rWrote' = [rWrote EXCEPT ![p] = FALSE]
    /\ rAgain' = [rAgain EXCEPT ![p] =
                    IF target = None /\ \E d \in Dirs : <<archive[path], d>> \in prepared
                      THEN Some(CHOOSE d \in Dirs : <<archive[path], d>> \in prepared)
                      ELSE None]
    /\ IF archive[path] = NoFile
         THEN /\ rResult' = [rResult EXCEPT ![p] = <<"FileNotFoundError">>]
              /\ rDir' = [rDir EXCEPT ![p] = None]
              /\ UNCHANGED <<rPc, hashCache>>
         ELSE /\ rResult' = [rResult EXCEPT ![p] = <<"none">>]
              /\ rPc' = [rPc EXCEPT ![p] = "chosen"]
              /\ IF target = None
                   THEN /\ hashCache' = [hashCache EXCEPT ![path] = Some(ComputeTarballHash(path))]
                        /\ rDir' = [rDir EXCEPT ![p] = Some(CacheDir(ComputeTarballHash(path)))]
                   ELSE /\ rDir' = [rDir EXCEPT ![p] = target]
                        /\ UNCHANGED hashCache
    /\ UNCHANGED <<archive, dirExists, tree, rSrc, rNext, nReplaced, prepared>>
    /\ UNCHANGED notRootfs

\* The record of the cache calls that returned, with the call of p returning.
Prepared(p) ==
    IF rTarget[p] = None THEN prepared \cup {<<rBytes[p], rDir[p][1]>>} ELSE prepared

\* if rootfs_dir.exists(): return rootfs_dir (79-80).
ReturnIfExists(p) ==
    /\ rPc[p] = "chosen"
    /\ IF rDir[p][1] \in dirExists
         THEN /\ rPc' = [rPc EXCEPT ![p] = "idle"]
              /\ rResult' = [rResult EXCEPT ![p] = <<"returned", rDir[p][1]>>]
              /\ rDir' = [rDir EXCEPT ![p] = None]
              /\ prepared' = Prepared(p)
         ELSE /\ rPc' = [rPc EXCEPT ![p] = "absent"]
              /\ UNCHANGED <<rResult, rDir, prepared>>
    /\ UNCHANGED <<archive, hashCache, dirExists, tree, rPath, rTarget, rBytes,
                   rSrc, rNext, rWrote, rAgain, rCalls, nReplaced>>
    /\ UNCHANGED notRootfs

\* rootfs_dir.mkdir(parents=True, exist_ok=True) and _open_tarball (83-84):
\* the directory exists from here on, and the tarball is read as it is now.
MkdirAndOpen(p) ==
    /\ rPc[p] = "absent"
    /\ dirExists' = dirExists \cup {rDir[p][1]}
    /\ rSrc' = [rSrc EXCEPT ![p] = archive[rPath[p]]]
    /\ rNext' = [rNext EXCEPT ![p] = 1]
    /\ rWrote' = [rWrote EXCEPT ![p] = TRUE]
    /\ rPc' = [rPc EXCEPT ![p] = "extracting"]
    /\ UNCHANGED <<archive, hashCache, tree, rPath, rTarget, rBytes, rDir,
                   rResult, rAgain, rCalls, nReplaced, prepared>>
    /\ UNCHANGED notRootfs

\* The call of caller p is over: its locals are gone.
CallEnds(p) ==
    /\ rPc' = [rPc EXCEPT ![p] = "idle"]
    /\ rDir' = [rDir EXCEPT ![p] = None]
    /\ rSrc' = [rSrc EXCEPT ![p] = NoFile]
    /\ rNext' = [rNext EXCEPT ![p] = 1]

\* One turn of _safe_extractall's loop (39-43), and the end of setup_rootfs
\* (86-89): after the last member rootfs_dir is returned; an unsafe member
\* raises RuntimeError, which setup_rootfs wraps and raises, leaving what was
\* extracted in place; a member with a safe name is extracted with
\* filter="fully_trusted" (43), be it a file or a symbolic link.
ExtractNext(p) ==
    /\ rPc[p] = "extracting"
    /\ IF rNext[p] > Len(Members(rSrc[p]))
         THEN /\ rResult' = [rResult EXCEPT ![p] = <<"returned", rDir[p][1]>>]
              /\ prepared' = Prepared(p)
              /\ CallEnds(p)
              /\ UNCHANGED tree
         ELSE IF UnsafeMember(Members(rSrc[p])[rNext[p]])
           THEN /\ rResult' = [rResult EXCEPT ![p] = <<"RuntimeError", rDir[p][1]>>]
                /\ CallEnds(p)
                /\ UNCHANGED <<tree, prepared>>
           ELSE /\ tree' = [tree EXCEPT ![rDir[p][1]] = @ \cup {<<rSrc[p], rNext[p]>>}]
                /\ rNext' = [rNext EXCEPT ![p] = @ + 1]
                /\ UNCHANGED <<rPc, rResult, rDir, rSrc, prepared>>
    /\ UNCHANGED <<archive, hashCache, dirExists, rPath, rTarget, rBytes,
                   rWrote, rAgain, rCalls, nReplaced>>
    /\ UNCHANGED notRootfs

\* The extraction is interrupted (KeyboardInterrupt, which except Exception
\* does not catch, or the end of the process): the call is over and what was
\* extracted stays.
Interrupted(p) ==
    /\ rPc[p] = "extracting"
    /\ rResult' = [rResult EXCEPT ![p] = <<"interrupted", rDir[p][1]>>]
    /\ CallEnds(p)
    /\ UNCHANGED <<archive, hashCache, dirExists, tree, rPath, rTarget, rBytes,
                   rWrote, rAgain, rCalls, nReplaced, prepared>>
    /\ UNCHANGED notRootfs

\* The file at a tarball path is replaced by another archive.
ReplaceArchive(path, bytes) ==
    /\ nReplaced < MaxReplace
    /\ archive[path] # bytes
    /\ archive' = [archive EXCEPT ![path] = bytes]
    /\ nReplaced' = nReplaced + 1
    /\ UNCHANGED <<hashCache, dirExists, tree, rPc, rPath, rTarget, rBytes,
                   rDir, rSrc, rNext, rResult, rWrote, rAgain, rCalls, prepared>>
    /\ UNCHANGED notRootfs

(***************************************************************************)
(* Claims about setup_rootfs, checked under SpecRootfs.                    *)
(***************************************************************************)

\* The last call of caller p returned a directory.
Returned(p) == rResult[p][1] = "returned"

\* An archive holds a member whose name is absolute or has a '..' component.
HasUnsafeMember(bytes) ==
    \E k \in 1..Len(Members(bytes)) : UnsafeMember(Members(bytes)[k])

\* Some call is extracting into directory d.
BeingPopulated(d) ==
    \E q \in Callers : rPc[q] = "extracting" /\ rDir[q] = Some(d)

\* Every call so far was made by caller 1, one after the other, and none is in
\* progress.
InSequence ==
    /\ rPc[1] = "idle"
    /\ \A q \in Callers \ {1} : rPc[q] = "idle" /\ rResult[q] = <<"none">>

\* C6: in a sequence of calls, a call without rootfs_path that returned,
\* returned the cache directory named by the sha256 of its archive's bytes;
\* and when an earlier call had returned a directory for the same bytes, it
\* returned that directory and neither made a directory nor extracted.
C6_CacheDirOfDigestIdempotent ==
    \A p \in Callers :
        (Returned(p) /\ rTarget[p] = None /\ InSequence) =>
            /\ rResult[p][2] = CacheDir(Sha256(rBytes[p]))
            /\ rAgain[p] # None => rResult[p][2] = rAgain[p][1] /\ ~rWrote[p]

\* C7: in a sequence of calls, a call on an archive with an unsafe member
\* has not returned a directory, and once its error has reached the caller
\* the target directory does not exist.
C7_UnsafeArchiveLeavesNoDir ==
    \A p \in Callers :
        /\ (Returned(p) /\ InSequence) => ~HasUnsafeMember(rBytes[p])
        /\ rResult[p][1] = "RuntimeError" => rResult[p][2] \notin dirExists

\* C8: in a sequence of calls on one archive (the file is never replaced, no
\* rootfs_path is given, and no two calls overlap), a directory that
\* setup_rootfs returned holds the complete tree of the archive.
C8_ReturnedTreeIsComplete ==
    \A p \in Callers :
        (/\ Returned(p)
         /\ rTarget[p] = None
         /\ nReplaced = 0
         /\ InSequence) =>
            tree[rResult[p][2]] = FullTree(rBytes[p])

\* C9: extraction into a cache directory is atomic: a directory that a call
\* returned is not being populated by another call, and a call never finds a
\* directory that is being populated to exist.
C9_ExtractionIsAtomic ==
    \A p \in Callers :
        /\ (Returned(p) /\ rTarget[p] = None) => ~BeingPopulated(rResult[p][2])
        /\ (rPc[p] = "chosen" /\ rTarget[p] = None /\ BeingPopulated(rDir[p][1])) =>
              rDir[p][1] \notin dirExists

\* Member k of an archive is a symbolic link whose target is absolute or has
\* a '..' component.
EscapingLink(bytes, k) ==
    LinkName(bytes, k) # None /\ UnsafeMember(LinkName(bytes, k)[1])

\* An archive has a symbolic link that escapes.
HasEscapingLink(bytes) == \E k \in 1..Len(Members(bytes)) : EscapingLink(bytes, k)

\* C28: in a sequence of calls on one archive, a call that extracted an
\* archive with a symbolic link whose target is absolute or has a '..'
\* component has not returned a directory; and no directory holds such a
\* link, so that no member is extracted through one.
C28_EscapingSymlinkRefused ==
    /\ \A p \in Callers :
          (Returned(p) /\ rWrote[p] /\ InSequence /\ nReplaced = 0) =>
              ~HasEscapingLink(rBytes[p])
    /\ \A d \in Dirs : \A m \in tree[d] : ~EscapingLink(m[1], m[2])

\* C29: in a sequence of calls, a call with rootfs_path that returned, returned
\* that path, and the directory holds the complete tree of the archive given,
\* whether or not it existed before the call.
C29_ExplicitTargetHoldsArchive ==
    \A p \in Callers :
        (Returned(p) /\ rTarget[p] # None /\ InSequence) =>
            /\ rResult[p][2] = rTarget[p][1]
            /\ tree[rResult[p][2]] = FullTree(rBytes[p])

\* The cache directory a setup_rootfs without memo gives: named by the
\* sha256 of the bytes the archive path holds when the call is made.
RecomputedDir(bytes) == CacheDir(Sha256(bytes))

\* C34: whatever calls were made before and whatever was written to the
\* archive path between them, the cache directory a call chooses, and the
\* one it returns, is the directory that recomputing the sha256 of the
\* archive's bytes at the call gives.
C34_MemoEqualsRecomputedHash ==
    \A p \in Callers :
        rTarget[p] = None =>
            /\ rDir[p] # None => rDir[p][1] = RecomputedDir(rBytes[p])
            /\ Returned(p) => rResult[p][2] = RecomputedDir(rBytes[p])


NextRootfs ==
    \/ \E p \in Callers, path \in TarPaths, target \in {None, Some(ExplicitDir)} :
          SetupRootfs(p, path, target)
    \/ \E p \in Callers : ReturnIfExists(p)
    \/ \E p \in Callers : MkdirAndOpen(p)
    \/ \E p \in Callers : ExtractNext(p)
    \/ \E p \in Callers : Interrupted(p)
    \/ \E path \in TarPaths, bytes \in Archives : ReplaceArchive(path, bytes)

(***************************************************************************)
(* PART 4: sandbox.py, the life of one Sandbox object: __init__, the       *)
(* children run() starts in it, and close().                               *)
(***************************************************************************)

MaxChildren == 2    \* children started by run() over the life of the sandbox
MaxCloses == 2      \* calls of close()

\* An attribute that __init__ has not assigned (hasattr is false).
Unset == <<"no attribute">>

\* The directories of the host the sandbox works with.
WorkTmp == "/tmp/tmp_work"            \* TemporaryDirectory(dir="/tmp"), line 80
ScratchTmp == "/tmp/tmp_scratch"      \* TemporaryDirectory(dir="/tmp"), line 90
OverlayTmp == "/tmp/tmp_overlay"      \* TemporaryDirectory(dir="/tmp"), line 110
ExplicitWork == "/data/work"          \* a work_dir the caller gives
ExplicitOverlay == "/data/overlay"    \* a rootfs_overlay_path the caller gives
WorkDirs == {WorkTmp, ExplicitWork}

\* The files a child writes in its home directory, and what it writes.
FileNames == {"test_file.txt"}
Contents == {"persistent data"}
FileStates == [FileNames -> {None} \cup {Some(c) : c \in Contents}]
NoFiles == [f \in FileNames |-> None]

\* The steps of __init__ that can raise, with "none" for a construction that
\* goes through.
FailPoints == {"none", "bwrap", "rootfs", "overlay tool", "mount"}

Params ==
    [work_dir : {None, Some(ExplicitWork)},
     rootfs_overlay : BOOLEAN,
     rootfs_overlay_path : {None, Some(ExplicitOverlay)},
     persist_overlayfs : BOOLEAN]

\* The defaults of the parameters (47-52).
DefaultParams ==
    [work_dir |-> None, rootfs_overlay |-> FALSE, rootfs_overlay_path |-> None,
     persist_overlayfs |-> FALSE]

SandboxInit ==
    /\ sbPc = "new"
    /\ hostDirs \in {{}, {ExplicitWork}}
    /\ files \in {fs \in [WorkDirs -> FileStates] :
                    /\ fs[WorkTmp] = NoFiles
                    /\ ExplicitWork \notin hostDirs => fs[ExplicitWork] = NoFiles}
    /\ fusermountInstalled \in BOOLEAN
    /\ mounted = FALSE
    /\ work_dir = Unset
    /\ temp_dir = Unset
    /\ tmp_dir = Unset
    /\ rootfs_dir_tmp = Unset
    /\ rootfs_overlay = "unset"
    /\ persist_overlayfs = FALSE
    /\ children = 0
    /\ nSpawned = 0
    /\ nCloses = 0
    /\ closeOutcome = "none"
    /\ filesAtClose = NoFiles
    /\ wroteSinceClose = FALSE
    /\ params = DefaultParams
    /\ failedAt = "none"
    /\ closeLog = <<>>
    /\ liveAtClose = 0
    /\ scripts = 0
    /\ runOutcome = "none"

\* The sandbox part with no Sandbox ever constructed.
SandboxIdle ==
    /\ SandboxInit
    /\ hostDirs = {}
    /\ files = [w \in WorkDirs |-> NoFiles]
    /\ fusermountInstalled = TRUE

\* Lines 79-90 of __init__: the work directory and the scratch directory.
\* Yields <<_temp_dir, work_dir, directories made>>.
WorkAndScratch(par) ==
    IF par.work_dir = None
      THEN <<Some(WorkTmp), Some(WorkTmp), {WorkTmp, ScratchTmp}>>
      ELSE <<None, par.work_dir, {par.work_dir[1], ScratchTmp}>>

\* The step at which __init__ raises, when the environment would fail it at
\* `env`: the ValueError of line 108 comes from the parameters alone.
FailsAt(par, env) ==
    IF env \in {"bwrap", "rootfs"} THEN env
    ELSE IF ~par.rootfs_overlay THEN "none"
    ELSE IF env = "overlay tool" THEN env
    ELSE IF par.rootfs_overlay_path = None /\ par.persist_overlayfs THEN "persist"
    ELSE env

\* Sandbox.__init__ (45-141), from its first line to its return or raise.
Construct(par, env) ==
    LET at == FailsAt(par, env)
        ws == WorkAndScratch(par)
    IN  /\ sbPc = "new"
        /\ sbPc' = IF at = "none" THEN "open" ELSE "failed"
        /\ params' = par
        /\ failedAt' = at
        /\ IF at = "bwrap"
             THEN UNCHANGED <<temp_dir, work_dir, tmp_dir, hostDirs, persist_overlayfs,
                              rootfs_overlay, rootfs_dir_tmp, mounted>>
             ELSE /\ temp_dir' = ws[1]
                  /\ work_dir' = ws[2]
                  /\ tmp_dir' = Some(ScratchTmp)
                  /\ IF at = "rootfs"
                       THEN /\ hostDirs' = hostDirs \cup ws[3]
                            /\ UNCHANGED <<persist_overlayfs, rootfs_overlay,
                                           rootfs_dir_tmp, mounted>>
                       ELSE /\ persist_overlayfs' = par.persist_overlayfs
                            /\ IF ~par.rootfs_overlay
                                 THEN /\ rootfs_overlay' = "no"
                                      /\ hostDirs' = hostDirs \cup ws[3]
                                      /\ UNCHANGED <<rootfs_dir_tmp, mounted>>
                               ELSE IF at = "overlay tool"
                                 THEN /\ hostDirs' = hostDirs \cup ws[3]
                                      /\ UNCHANGED <<rootfs_overlay, rootfs_dir_tmp, mounted>>
                               ELSE IF at = "persist"
                                 THEN /\ rootfs_overlay' = "yes"
                                      /\ hostDirs' = hostDirs \cup ws[3]
                                      /\ UNCHANGED <<rootfs_dir_tmp, mounted>>
                               ELSE /\ rootfs_overlay' = "yes"
                                    /\ IF par.rootfs_overlay_path = None
                                         THEN /\ rootfs_dir_tmp' = Some(OverlayTmp)
                                              /\ hostDirs' = hostDirs \cup ws[3] \cup {OverlayTmp}
                                         ELSE /\ hostDirs' = hostDirs \cup ws[3]
                                                               \cup {par.rootfs_overlay_path[1]}
                                              /\ UNCHANGED rootfs_dir_tmp
                                    /\ mounted' = (at = "none")
        /\ UNCHANGED <<files, fusermountInstalled, children, nSpawned, nCloses,
                       closeOutcome, filesAtClose, wroteSinceClose, closeLog,
                       liveAtClose, scripts, runOutcome>>
        /\ UNCHANGED notSandbox

\* What the object is made of: its attributes, as __init__ left them.
sbAttrs == <<work_dir, rootfs_dir_tmp, rootfs_overlay, persist_overlayfs, params,
             failedAt, fusermountInstalled>>

\* What close() leaves a record of.
sbClose == <<nCloses, closeOutcome, filesAtClose, wroteSinceClose, closeLog,
             liveAtClose>>

\* The options of run(); run_script calls _start_process with fixed ones
\* (190-196).
RunOpts ==
    [use_pty : BOOLEAN, stdin_pipe : BOOLEAN, stdout_pipe : BOOLEAN,
     stderr_pipe : BOOLEAN, allow_network : BOOLEAN]

\* The calls of run() tried on the sandbox: with or without a PTY, with all
\* pipes or none.
LifeRunOpts ==
    {o \in RunOpts : /\ o.stdin_pipe = o.stdout_pipe
                     /\ o.stdout_pipe = o.stderr_pipe
                     /\ ~o.allow_network}

ScriptOpts(allow_network) ==
    [use_pty |-> FALSE, stdin_pipe |-> FALSE, stdout_pipe |-> TRUE,
     stderr_pipe |-> TRUE, allow_network |-> allow_network]

\* A check that only looks at stdin_pipe.
StartRaisesStdinOnly(tmp, o) ==
    IF o.use_pty /\ o.stdin_pipe THEN "ValueError"
    ELSE IF tmp = None THEN "AttributeError"
    ELSE "none"

\* A _start_process that does not read the scratch attribute.
StartRaisesScratchNotRead(tmp, o) ==
    IF o.use_pty /\ (o.stdin_pipe \/ o.stdout_pipe \/ o.stderr_pipe) THEN "ValueError"
    ELSE "none"

\* What _start_process raises before it spawns anything, for scratch
\* attribute tmp: the ValueError of 209-210, or the AttributeError of
\* self.tmp_dir.name (222) when close() has set tmp_dir to None.
StartRaises(tmp, o) ==
    IF o.use_pty /\ (o.stdin_pipe \/ o.stdout_pipe \/ o.stderr_pipe) THEN "ValueError"
    ELSE IF tmp = None THEN "AttributeError"
    ELSE "none"

\* run (144-170) and run_script (172-197): run_script writes its script in
\* the scratch directory first (187-188), then both go through
\* _start_process (200-273), which spawns a child or raises.
Run(kind, o) ==
    LET opts == IF kind = "run_script" THEN ScriptOpts(o.allow_network) ELSE o
        err == IF kind = "run_script" /\ tmp_dir = None
                 THEN "AttributeError"
                 ELSE StartRaises(tmp_dir, opts)
    IN  /\ sbPc = "open"
        /\ kind = "run_script" => o = ScriptOpts(o.allow_network)
        /\ nSpawned < MaxChildren
        /\ runOutcome' = IF err = "none" THEN "spawned" ELSE err
        /\ scripts' = IF kind = "run_script" /\ tmp_dir # None THEN scripts + 1 ELSE scripts
        /\ IF err = "none"
             THEN /\ nSpawned' = nSpawned + 1
                  /\ children' = children + 1
             ELSE UNCHANGED <<nSpawned, children>>
        /\ UNCHANGED <<sbPc, hostDirs, files, mounted, temp_dir, tmp_dir>>
        /\ UNCHANGED <<sbAttrs, sbClose>>
        /\ UNCHANGED notSandbox

\* A running child writes (or removes, with None) a file of its home
\* directory; the host sees it while the bound directory is there.
ChildWrites(f, c) ==
    /\ children > 0
    /\ work_dir[1] \in hostDirs
    /\ files[work_dir[1]][f] # c
    /\ files' = [files EXCEPT ![work_dir[1]][f] = c]
    /\ wroteSinceClose' = TRUE
    /\ UNCHANGED <<sbPc, hostDirs, mounted, temp_dir, tmp_dir, children, nSpawned,
                   scripts, runOutcome, nCloses, closeOutcome, filesAtClose,
                   closeLog, liveAtClose>>
    /\ UNCHANGED sbAttrs
    /\ UNCHANGED notSandbox

\* A child ends.
ChildEnds ==
    /\ children > 0
    /\ children' = children - 1
    /\ UNCHANGED <<sbPc, hostDirs, files, mounted, temp_dir, tmp_dir, nSpawned,
                   scripts, runOutcome>>
    /\ UNCHANGED <<sbAttrs, sbClose>>
    /\ UNCHANGED notSandbox

\* A cleanup() that removes nothing.
CleanupRemovesNothing(td) == {}

\* The directory TemporaryDirectory.cleanup() removes for attribute value td.
Cleanup(td) == IF td \in {Unset, None} THEN {} ELSE {td[1]}

\* The steps of close() that can raise, with "none" for a close() that
\* returns.
ClosePoints == {"none", "rootfs_overlay", "fusermount", "tmp_dir", "_temp_dir"}

\* A close() that unmounts every overlay, persisted or not.
UnmountsPersisted == rootfs_overlay = "yes"

\* close() runs fusermount -u: only for an overlay that is not persisted.
Unmounts == rootfs_overlay = "yes" /\ ~persist_overlayfs

\* An unmount run with check=True: it raises when there is nothing mounted.
UnmountChecked(isMounted) == ~isMounted

\* Whether a failing fusermount -u makes close() raise: subprocess.run is
\* called without check=True and its return code is not looked at (282-286).
UnmountRaises(isMounted) == FALSE

\* The steps of this close() that can raise: the read of an attribute that
\* __init__ never set (278), subprocess.run raising FileNotFoundError when
\* there is no fusermount to run (282), and a cleanup() raising OSError when
\* a child that is still running writes into the directory while it is
\* being removed (290, 293).
CloseRaisesAt ==
    IF rootfs_overlay = "unset" THEN {"rootfs_overlay"}
    ELSE IF Unmounts /\ (~fusermountInstalled \/ UnmountRaises(mounted))
      THEN {"fusermount"}
      ELSE {"none"}
             \cup (IF children > 0 /\ Cleanup(tmp_dir) \cap hostDirs # {}
                     THEN {"tmp_dir"} ELSE {})
             \cup (IF children > 0 /\ Cleanup(temp_dir) \cap hostDirs # {}
                     THEN {"_temp_dir"} ELSE {})

\* A close() that removes the work directory before the scratch directory.
CloseLogWorkDirFirst(at) ==
    (IF at = "none" /\ Cleanup(temp_dir) # {} THEN <<"_temp_dir">> ELSE <<>>)
    \o (IF at = "none" /\ Cleanup(tmp_dir) # {} THEN <<"tmp_dir">> ELSE <<>>)
    \o (IF Unmounts /\ at = "none" THEN <<"fusermount">> ELSE <<>>)

\* What a close() that ends at `at` did, in the order of its statements: the
\* warning (280), fusermount -u (282-286), tmp_dir.cleanup() (290),
\* _temp_dir.cleanup() (293).
CloseLog(at) ==
    IF at = "rootfs_overlay" THEN <<>>
    ELSE (IF rootfs_overlay = "yes" /\ persist_overlayfs THEN <<"warn">> ELSE <<>>)
         \o (IF Unmounts /\ at # "fusermount" THEN <<"fusermount">> ELSE <<>>)
         \o (IF at \in {"none", "_temp_dir"} /\ Cleanup(tmp_dir) # {}
               THEN <<"tmp_dir">> ELSE <<>>)
         \o (IF at = "none" /\ Cleanup(temp_dir) # {} THEN <<"_temp_dir">> ELSE <<>>)

\* The body of Sandbox.close (275-294), from its first line to its return
\* or its raise at `at`.
CloseBody(at) ==
    /\ at \in CloseRaisesAt
    /\ nCloses' = nCloses + 1
    /\ closeOutcome' = IF at = "none" THEN "returned" ELSE "raised"
    /\ closeLog' = CloseLog(at)
    /\ liveAtClose' = children
    /\ filesAtClose' = IF work_dir = Unset THEN NoFiles ELSE files[work_dir[1]]
    /\ wroteSinceClose' = FALSE
    /\ mounted' = IF Unmounts /\ at \notin {"rootfs_overlay", "fusermount"}
                    THEN FALSE
                    ELSE mounted
    /\ IF at \in {"rootfs_overlay", "fusermount", "tmp_dir"}
         THEN UNCHANGED <<tmp_dir, temp_dir, hostDirs, files, scripts>>
         ELSE /\ tmp_dir' = None
              /\ scripts' = IF Cleanup(tmp_dir) # {} THEN 0 ELSE scripts
              /\ IF at = "_temp_dir"
                   THEN /\ hostDirs' = hostDirs \ Cleanup(tmp_dir)
                        /\ \E left \in FileStates :
                              /\ \A f \in FileNames :
                                    left[f] \in {None, files[work_dir[1]][f]}
                              /\ files' = [files EXCEPT ![work_dir[1]] = left]
                        /\ UNCHANGED temp_dir
                   ELSE /\ temp_dir' = None
                        /\ hostDirs' = (hostDirs \ Cleanup(tmp_dir)) \ Cleanup(temp_dir)
                        /\ files' = [w \in WorkDirs |->
                                       IF w \in Cleanup(temp_dir) THEN NoFiles ELSE files[w]]

\* close() called on a constructed sandbox, directly or by __exit__
\* (299-300), which only calls it.
Close(via, at) ==
    /\ sbPc = "open"
    /\ nCloses < MaxCloses
    /\ CloseBody(at)
    /\ UNCHANGED <<sbPc, children, nSpawned, runOutcome>>
    /\ UNCHANGED sbAttrs
    /\ UNCHANGED notSandbox

\* __del__ (302-306), when the last reference to the object goes: close()
\* with whatever it raises swallowed.  The object may be one whose __init__
\* raised.
Del(at) ==
    /\ sbPc \in {"open", "failed"}
    /\ CloseBody(at)
    /\ sbPc' = "deleted"
    /\ UNCHANGED <<children, nSpawned, runOutcome>>
    /\ UNCHANGED sbAttrs
    /\ UNCHANGED notSandbox

(***************************************************************************)
(* Claims about the work directory, checked under SpecSandbox.             *)
(***************************************************************************)

\* C10: once close() has returned, the work directory of a sandbox made with
\* work_dir=None does not exist, and the work directory of a sandbox made
\* with an explicit work_dir exists with every file as it was when close()
\* was called (until a child writes there again).
C10_CloseKeepsOnlyExplicitWorkDir ==
    closeOutcome = "returned" =>
        /\ temp_dir = None
        /\ work_dir = Some(WorkTmp) => WorkTmp \notin hostDirs
        /\ work_dir = Some(ExplicitWork) =>
              /\ ExplicitWork \in hostDirs
              /\ ~wroteSinceClose => files[ExplicitWork] = filesAtClose

\* close() returned on a sandbox made with an explicit work_dir in which a
\* child had written a file, with the scratch directory removed.
C10_Witness ==
    /\ closeOutcome = "returned"
    /\ work_dir = Some(ExplicitWork)
    /\ \A f \in FileNames : filesAtClose[f] # None
    /\ ~wroteSinceClose
    /\ ScratchTmp \notin hostDirs

\* C11: once a close() has returned, every further close() (called directly,
\* by __exit__ or by __del__) returns too, and leaves the attributes of the
\* sandbox, the host's directories and files, and the mount as they were.
C11_CloseIsIdempotent ==
    [][(closeOutcome = "returned" /\ nCloses' = nCloses + 1) =>
          /\ closeOutcome' = "returned"
          /\ UNCHANGED <<work_dir, temp_dir, tmp_dir, rootfs_dir_tmp, rootfs_overlay,
                         persist_overlayfs, hostDirs, files, mounted, scripts>>]_vars

\* A second close() has returned on an overlay sandbox made with
\* work_dir=None whose first close() had unmounted the overlay and removed
\* both temporary directories.
C11_Witness ==
    /\ nCloses = 2
    /\ closeOutcome = "returned"
    /\ closeLog = <<"fusermount">>
    /\ params.work_dir = None
    /\ temp_dir = None
    /\ tmp_dir = None

\* The object is collected: the TemporaryDirectory objects it still holds
\* are finalized, and each removes its directory (the overlay root only if
\* nothing is mounted in it; with a child still writing, a removal may fail).
Collect(kept) ==
    LET held == Cleanup(tmp_dir) \cup Cleanup(temp_dir)
                  \cup (IF mounted THEN {} ELSE Cleanup(rootfs_dir_tmp))
    IN  /\ sbPc = "deleted"
        /\ sbPc' = "gone"
        /\ kept \subseteq (IF children > 0 THEN held \cap hostDirs ELSE {})
        /\ hostDirs' = hostDirs \ (held \ kept)
        /\ files' = [w \in WorkDirs |->
                       IF w \in held \ kept THEN NoFiles ELSE files[w]]
        /\ scripts' = IF ScratchTmp \in held \ kept THEN 0 ELSE scripts
        /\ UNCHANGED <<mounted, temp_dir, tmp_dir, children, nSpawned, runOutcome>>
        /\ UNCHANGED <<sbAttrs, sbClose>>
        /\ UNCHANGED notSandbox

\* Every a in the log comes before every b.
Before(log, a, b) ==
    \A i, j \in 1..Len(log) : (log[i] = a /\ log[j] = b) => i < j

\* The log has an entry e.
Did(log, e) == \E i \in 1..Len(log) : log[i] = e

\* C12: in every close(), the overlay is unmounted before a temporary
\* directory is removed and the scratch directory is removed before the work
\* directory: a close() that removed a directory had run the unmount that
\* was due first, and one that removed the work directory had removed the
\* scratch directory.
C12_CloseReleasesInReverseOrder ==
    /\ Before(closeLog, "fusermount", "tmp_dir")
    /\ Before(closeLog, "fusermount", "_temp_dir")
    /\ Before(closeLog, "tmp_dir", "_temp_dir")
    /\ (Unmounts /\ (Did(closeLog, "tmp_dir") \/ Did(closeLog, "_temp_dir"))) =>
          closeLog[1] = "fusermount"
    /\ Did(closeLog, "_temp_dir") => ScratchTmp \notin hostDirs

\* A close() that unmounted the overlay, then removed the scratch directory,
\* then the work directory.
C12_Witness == closeLog = <<"fusermount", "tmp_dir", "_temp_dir">>

\* C13: when close() returns, no child started on the sandbox is running.
C13_CloseEndsChildren == closeOutcome = "returned" => liveAtClose = 0

\* The sandbox was constructed (__init__ returned).
Constructed == sbPc # "new" /\ failedAt = "none"

\* C14: on a constructed sandbox with an overlay, a close() that returned
\* warned and ran no unmount when persist_overlayfs is set, leaving the
\* overlay mounted in its directory; it ran the unmount and did not warn
\* when persist_overlayfs is not set.
C14_PersistedOverlayStaysMounted ==
    (Constructed /\ rootfs_overlay = "yes" /\ closeOutcome = "returned") =>
        IF persist_overlayfs
          THEN /\ Did(closeLog, "warn")
               /\ ~Did(closeLog, "fusermount")
               /\ mounted
               /\ ExplicitOverlay \in hostDirs
          ELSE /\ Did(closeLog, "fusermount")
               /\ ~Did(closeLog, "warn")

\* close() returned on a sandbox with a persisted overlay.
C14_Witness ==
    /\ Constructed
    /\ closeOutcome = "returned"
    /\ persist_overlayfs
    /\ closeLog = <<"warn", "tmp_dir", "_temp_dir">>
    /\ mounted

\* C15: a construction with persist_overlayfs=True that succeeds was given
\* rootfs_overlay=True and a rootfs_overlay_path, and a persisted overlay is
\* never mounted in an engine-owned directory.
C15_PersistNeedsOverlayAndPath ==
    /\ (Constructed /\ params.persist_overlayfs) =>
          params.rootfs_overlay /\ params.rootfs_overlay_path # None
    /\ (mounted /\ persist_overlayfs) => rootfs_dir_tmp = Unset

\* C16: when __init__ has raised, no engine-created temporary directory and
\* no overlay mount is left.
C16_FailedInitLeavesNothing ==
    (sbPc = "failed") =>
        /\ hostDirs \cap {WorkTmp, ScratchTmp, OverlayTmp} = {}
        /\ ~mounted

\* C38: once close() has returned, a call of run() or run_script() on the
\* sandbox raises an error, starts no child, and run_script writes no
\* script file.
C38_NoSpawnAfterClose ==
    [][closeOutcome = "returned" =>
          \A kind \in {"run", "run_script"}, o \in RunOpts :
              Run(kind, o) =>
                  /\ runOutcome' \in {"ValueError", "AttributeError"}
                  /\ nSpawned' = nSpawned
                  /\ children' = children
                  /\ scripts' = scripts]_vars

\* A sandbox that started one child, was closed, and was then asked to run
\* again: the call raised and no second child was started.
C38_Witness ==
    /\ sbPc = "open"
    /\ closeOutcome = "returned"
    /\ runOutcome = "AttributeError"
    /\ nSpawned = 1
    /\ scripts = 0

\* C39: for a sandbox made with an overlay, without an overlay path of the
\* caller and without persistence, once close() has returned the overlay is
\* not mounted and the overlay root the sandbox made for itself is gone.
C39_OwnOverlayRootGoneAfterClose ==
    ( /\ sbPc = "open"
      /\ params.rootfs_overlay
      /\ params.rootfs_overlay_path = None
      /\ ~params.persist_overlayfs
      /\ closeOutcome = "returned" ) =>
        /\ ~mounted
        /\ OverlayTmp \notin hostDirs

NextSandbox ==
    \/ \E par \in Params, env \in FailPoints : Construct(par, env)
    \/ \E o \in LifeRunOpts : Run("run", o)
    \/ Run("run_script", ScriptOpts(FALSE))
    \/ \E f \in FileNames, c \in {None} \cup {Some(x) : x \in Contents} : ChildWrites(f, c)
    \/ ChildEnds
    \/ \E via \in {"close", "__exit__"}, at \in ClosePoints : Close(via, at)
    \/ \E at \in ClosePoints : Del(at)
    \/ \E kept \in SUBSET {WorkTmp, ScratchTmp, OverlayTmp} : Collect(kept)

(***************************************************************************)
(* PART 5: the launcher and the PTY of a handle: _start_process            *)
(* (sandbox.py 200-273) as run and run_script call it, and                 *)
(* set_terminal_size and close_pty of the handle it gives (process.py).    *)
(***************************************************************************)

MaxStarts == 2       \* calls of run / run_script
MaxSizeCalls == 2    \* calls of set_terminal_size
MaxClosePty == 3     \* calls of close_pty

\* The file descriptors the process can have open beside 0, 1 and 2.
FirstFd == 3
Fds == FirstFd..(FirstFd + 2 * MaxStarts - 1)

\* The commands run() is given, and the script names uuid4 gives run_script
\* (186).
Commands == {"true", "echo \"$HOME\"; exit 3"}
ScriptNames == {"script_0f.py"}

\* The command run_script hands to _start_process (191).
ScriptCommand(run_command, script_name) == run_command \o " /tmp/" \o script_name

\* The terminal sizes at hand: struct.pack("HHHH", 24, 80, 0, 0) of line 247
\* and the one test_pty.py sets.
Sizes == {<<24, 80>>, <<50, 200>>}

\* No child spawned yet.
NoSpawn == [argv |-> <<>>, stdio |-> "none", preexec |-> "none"]

\* The smallest descriptor that is free, as the kernel hands it out.
LowestFree(open) == CHOOSE n \in Fds \ open : \A m \in Fds \ open : n <= m

\* A launcher that asks for a new session whatever the mode.
BuiltCommandAlwaysNewSession(overlay, tmpName, o, command) ==
    <<"bwrap", "--unshare-all", "--die-with-parent", "--uid", "1000",
      "--hostname", "sandbox",
      IF overlay THEN "--bind" ELSE "--ro-bind", "rootfs_dir", "/",
      "--bind", "work_dir", "/home/sandbox",
      "--dev", "/dev", "--proc", "/proc",
      "--bind", tmpName, "/tmp",
      "--clearenv",
      "--setenv", "HOME", "/home/sandbox",
      "--setenv", "PATH", "/usr/bin:/bin:/usr/local/bin:/sbin/",
      "--chdir", "/home/sandbox",
      "--new-session", "bash", "-c", command>>

\* A launcher that binds the rootfs writable whether or not an overlay is
\* mounted on it.
BuiltCommandWritableRoot(overlay, tmpName, o, command) ==
    <<"bwrap", "--unshare-all", "--die-with-parent", "--uid", "1000",
      "--hostname", "sandbox",
      "--bind", "rootfs_dir", "/",
      "--bind", "work_dir", "/home/sandbox",
      "--dev", "/dev", "--proc", "/proc",
      "--bind", tmpName, "/tmp",
      "--clearenv",
      "--setenv", "HOME", "/home/sandbox",
      "--setenv", "PATH", "/usr/bin:/bin:/usr/local/bin:/sbin/",
      "--chdir", "/home/sandbox">>
    \o (IF ~o.use_pty THEN <<"--new-session">> ELSE <<>>)
    \o (IF o.allow_network
          THEN <<"--ro-bind", "/etc/resolv.conf", "/etc/resolv.conf", "--share-net">>
          ELSE <<>>)
    \o <<"bash", "-c", command>>

\* built_command of _start_process (212-237).
BuiltCommand(overlay, tmpName, o, command) ==
    <<"bwrap", "--unshare-all", "--die-with-parent", "--uid", "1000",
      "--hostname", "sandbox",
      IF overlay THEN "--bind" ELSE "--ro-bind", "rootfs_dir", "/",
      "--bind", "work_dir", "/home/sandbox",
      "--dev", "/dev", "--proc", "/proc",
      "--bind", tmpName, "/tmp",
      "--clearenv",
      "--setenv", "HOME", "/home/sandbox",
      "--setenv", "PATH", "/usr/bin:/bin:/usr/local/bin:/sbin/",
      "--chdir", "/home/sandbox">>
    \o (IF ~o.use_pty THEN <<"--new-session">> ELSE <<>>)
    \o (IF o.allow_network
          THEN <<"--ro-bind", "/etc/resolv.conf", "/etc/resolv.conf", "--share-net">>
          ELSE <<>>)
    \o <<"bash", "-c", command>>

\* What asyncio.create_subprocess_exec is given (257-271): the argv, the
\* child's standard streams and the preexec_fn.
SpawnOf(overlay, tmpName, o, command) ==
    [argv |-> BuiltCommand(overlay, tmpName, o, command),
     stdio |-> IF o.use_pty THEN "slave_fd"
               ELSE <<o.stdin_pipe, o.stdout_pipe, o.stderr_pipe>>,
     preexec |-> IF o.use_pty THEN "setsid, TIOCSCTTY" ELSE "none"]

PtyInit ==
    /\ hPc = "none"
    /\ sbOverlay \in BOOLEAN
    /\ sbTmp \in {None, Some(ScratchTmp)}
    /\ openFds = {}
    /\ master_fd = None
    /\ spawn = NoSpawn
    /\ lastCall = <<"none", ScriptOpts(FALSE), "">>
    /\ runErr = "none"
    /\ winsize = <<24, 80>>
    /\ sizeResult = "none"
    /\ nStarts = 0
    /\ nOpenpty = 0
    /\ nSpawns = 0
    /\ nIoctl = 0
    /\ nSizeCalls = 0
    /\ nClosePty = 0
    /\ nOsClose = 0
    /\ badCloses = 0
    /\ ptyClosed = FALSE

\* The launcher part with no run() ever called, on a sandbox without overlay.
PtyIdle ==
    /\ PtyInit
    /\ sbOverlay = FALSE
    /\ sbTmp = Some(ScratchTmp)

\* A run() that does not hand the master descriptor to the handle.
HandleMasterFdDropped(kind, o, master) == None

\* _master_fd of the handle returned: run passes the master_fd that
\* _start_process returned (167-170), which is the PTY master when use_pty
\* and None otherwise (239-242); run_script passes none (190-197).
HandleMasterFd(kind, o, master) ==
    IF o.use_pty /\ kind = "run" THEN Some(master) ELSE None

\* run (144-170) or run_script (172-197) through _start_process (200-273):
\* the call raises, or gives a handle; `spawnOk` says whether
\* create_subprocess_exec succeeds and `size` is the size set on the slave.
StartProcess(kind, o, command, spawnOk, size) ==
    LET err == StartRaises(sbTmp, o)
        master == LowestFree(openFds)
        slave == LowestFree(openFds \cup {master})
    IN  /\ nStarts < MaxStarts
        /\ kind = "run_script" => o = ScriptOpts(o.allow_network)
        /\ nStarts' = nStarts + 1
        /\ lastCall' = <<kind, o, command>>
        /\ IF err # "none"
             THEN /\ runErr' = err
                  /\ hPc' = "raised"
                  /\ UNCHANGED <<openFds, master_fd, spawn, winsize, nOpenpty,
                                 nSpawns, ptyClosed>>
             ELSE /\ nOpenpty' = IF o.use_pty THEN nOpenpty + 1 ELSE nOpenpty
                  /\ winsize' = IF o.use_pty THEN size ELSE winsize
                  /\ IF spawnOk
                       THEN /\ runErr' = "none"
                            /\ hPc' = "handle"
                            /\ spawn' = SpawnOf(sbOverlay, sbTmp[1], o, command)
                            /\ nSpawns' = nSpawns + 1
                            /\ master_fd' = HandleMasterFd(kind, o, master)
                            /\ ptyClosed' = FALSE
                            /\ openFds' = IF o.use_pty
                                            THEN openFds \cup {master} ELSE openFds
                       ELSE /\ runErr' = "OSError"
                            /\ hPc' = "raised"
                            /\ openFds' = IF o.use_pty
                                            THEN openFds \cup {master, slave}
                                            ELSE openFds
                            /\ UNCHANGED <<master_fd, spawn, nSpawns, ptyClosed>>
        /\ UNCHANGED <<sbOverlay, sbTmp, sizeResult, nIoctl, nSizeCalls, nClosePty,
                       nOsClose, badCloses>>
        /\ UNCHANGED notPty

\* A set_terminal_size that never refuses.
NotPtyNever(m) == FALSE

\* if self._master_fd is None (59).
NotPty(m) == m = None

\* SandboxedProcess.set_terminal_size (57-62).
SetTerminalSize(rows, cols) ==
    /\ hPc = "handle"
    /\ nSizeCalls < MaxSizeCalls
    /\ nSizeCalls' = nSizeCalls + 1
    /\ IF NotPty(master_fd)
         THEN /\ sizeResult' = "RuntimeError"
              /\ UNCHANGED <<nIoctl, winsize>>
         ELSE /\ sizeResult' = "done"
              /\ nIoctl' = nIoctl + 1
              /\ winsize' = <<rows, cols>>
    /\ UNCHANGED <<hPc, sbOverlay, sbTmp, openFds, master_fd, spawn, lastCall,
                   runErr, nStarts, nOpenpty, nSpawns, nClosePty, nOsClose,
                   badCloses, ptyClosed>>
    /\ UNCHANGED notPty

\* A close_pty that forgets to reset _master_fd.
AfterClosePtyKept(m) == m

\* self._master_fd = None (71).
AfterClosePty(m) == None

\* SandboxedProcess.close_pty (64-71): os.close with OSError swallowed.
ClosePty ==
    /\ hPc = "handle"
    /\ nClosePty < MaxClosePty
    /\ nClosePty' = nClosePty + 1
    /\ ptyClosed' = TRUE
    /\ IF master_fd # None
         THEN /\ nOsClose' = nOsClose + 1
              /\ badCloses' = IF master_fd[1] \in openFds THEN badCloses ELSE badCloses + 1
              /\ openFds' = openFds \ {master_fd[1]}
              /\ master_fd' = AfterClosePty(master_fd)
         ELSE UNCHANGED <<nOsClose, badCloses, openFds, master_fd>>
    /\ UNCHANGED <<hPc, sbOverlay, sbTmp, spawn, lastCall, runErr, winsize,
                   sizeResult, nStarts, nOpenpty, nSpawns, nIoctl, nSizeCalls>>
    /\ UNCHANGED notPty

(***************************************************************************)
(* Claims about the launcher and the PTY, checked under SpecPty.           *)
(***************************************************************************)

\* Some pipe is asked for.
AnyPipe(o) == o.stdin_pipe \/ o.stdout_pipe \/ o.stderr_pipe

\* The argv has the flag.
HasFlag(argv, flag) == \E i \in 1..Len(argv) : argv[i] = flag

C18_ExactlyOneTerminalProtection ==
    nSpawns > 0 =>
        /\ HasFlag(spawn.argv, "--new-session") <=> spawn.stdio # "slave_fd"
        /\ spawn.stdio = "slave_fd" <=> spawn.preexec = "setsid, TIOCSCTTY"
        /\ (hPc = "handle") => (spawn.stdio = "slave_fd" <=> lastCall[2].use_pty)

\* A child was spawned on a PTY.
C18_Witness ==
    /\ hPc = "handle"
    /\ spawn.stdio = "slave_fd"
    /\ master_fd # None

\* C19: every set_terminal_size on a handle whose _master_fd is None raises
\* the RuntimeError, makes no ioctl and changes nothing.
C19_NoPtyNoResize ==
    [][(nSizeCalls' = nSizeCalls + 1 /\ master_fd = None) =>
          /\ sizeResult' = "RuntimeError"
          /\ UNCHANGED <<nIoctl, winsize, master_fd, openFds, spawn>>]_vars

\* set_terminal_size was refused on a PTY handle after close_pty.
C19_Witness ==
    /\ sizeResult = "RuntimeError"
    /\ hPc = "handle"
    /\ nStarts = 1
    /\ lastCall[2].use_pty
    /\ nClosePty > 0

\* C20: a close_pty on a handle with a PTY master closes it with one
\* os.close and sets _master_fd to None; a close_pty on a handle without
\* one does nothing; and no os.close is ever made on a descriptor that is
\* not open.
C20_ClosePtyIsIdempotent ==
    [][(nClosePty' = nClosePty + 1) =>
          /\ IF master_fd # None
               THEN /\ master_fd' = None
                    /\ nOsClose' = nOsClose + 1
                    /\ openFds' = openFds \ {master_fd[1]}
               ELSE UNCHANGED <<master_fd, nOsClose, openFds>>
          /\ badCloses' = 0]_vars

\* close_pty was called three times on one PTY handle, and closed once.
C20_Witness ==
    /\ nClosePty = 3
    /\ nStarts = 1
    /\ nOpenpty = 1
    /\ nOsClose = 1
    /\ master_fd = None

\* C21 as the claim states it: in every state of a handle, master_fd is
\* not None exactly when its child was spawned on a pseudoterminal.
C21_MasterFdIffPtyAlways ==
    hPc = "handle" => (master_fd # None <=> spawn.stdio = "slave_fd")

\* C21: in every state of a handle, master_fd is not None exactly when its
\* child was spawned on a pseudoterminal and close_pty has not been called on
\* the handle; the handles of run(use_pty=False) and of run_script have
\* master_fd None throughout.
C21_MasterFdIffPtyUntilClosed ==
    hPc = "handle" =>
        /\ master_fd # None <=> (spawn.stdio = "slave_fd" /\ ~ptyClosed)
        /\ spawn.stdio = "slave_fd" <=> (lastCall[1] = "run" /\ lastCall[2].use_pty)

\* run(use_pty=True) gave a handle with a master descriptor, after an earlier
\* call on the sandbox.
C21_Witness ==
    /\ hPc = "handle"
    /\ lastCall[1] = "run"
    /\ lastCall[2].use_pty
    /\ master_fd # None
    /\ nStarts = 2

\* The argv has the words of `pat` one after the other.
HasWords(argv, pat) ==
    \E i \in 1..(Len(argv) - Len(pat) + 1) : SubSeq(argv, i, i + Len(pat) - 1) = pat

\* The mandatory policy of the launcher argv, for a sandbox with or without
\* an overlay, the command given and the value PATH is to have.
MandatoryPolicy(argv, overlay, command, path) ==
    /\ argv[1] = "bwrap"
    /\ HasFlag(argv, "--unshare-all")
    /\ HasFlag(argv, "--die-with-parent")
    /\ HasWords(argv, <<"--uid", "1000">>)
    /\ HasWords(argv, <<"--hostname", "sandbox">>)
    /\ HasWords(argv, <<"--ro-bind", "rootfs_dir", "/">>) <=> ~overlay
    /\ HasWords(argv, <<"--bind", "rootfs_dir", "/">>) <=> overlay
    /\ \E c \in 1..Len(argv) :
          /\ argv[c] = "--clearenv"
          /\ \A i \in 1..Len(argv) : argv[i] \in {"--setenv", "--chdir"} => c < i
    /\ \E home \in {"/home/sandbox"} :
          /\ HasWords(argv, <<"--setenv", "HOME", home>>)
          /\ HasWords(argv, <<"--chdir", home>>)
    /\ HasWords(argv, <<"--setenv", "PATH", path>>)
    /\ Len(argv) >= 3
    /\ SubSeq(argv, Len(argv) - 2, Len(argv)) = <<"bash", "-c", command>>

NextPty ==
    \/ \E o \in RunOpts, command \in Commands, spawnOk \in BOOLEAN, size \in Sizes :
          StartProcess("run", o, command, spawnOk, size)
    \/ \E net \in BOOLEAN, name \in ScriptNames, spawnOk \in BOOLEAN :
          StartProcess("run_script", ScriptOpts(net), ScriptCommand("python", name),
                       spawnOk, <<24, 80>>)
    \/ \E size \in Sizes : SetTerminalSize(size[1], size[2])
    \/ ClosePty

(***************************************************************************)
(* PART 6: network.py, the life of one SandboxNetwork object: __init__     *)
(* with its rollback, forward_port with the connect loop of                *)
(* _connect_bridge_api_socket, and close.                                  *)
(***************************************************************************)

MaxForwards == 2      \* calls of forward_port
MaxNetCloses == 2     \* calls of close() made by the caller

\* time.monotonic() is counted in ticks of 10 ms: time.sleep(0.01) of line
\* 187 lasts SleepTicks and timeout=1.0 of line 165 lasts ConnectTimeout.
SleepTicks == 1
ConnectTimeout == 100

\* The two children of the fabric and its three temp files.
NetChildren == {"namespace_watchdog", "outbound_bridge"}
NetFiles == {"hosts_tmp", "bridge_api_socket", "resolv_tmp"}

\* The statements of __init__ that can raise, in the order of lines 45-83,
\* and "none" for a construction that raises nowhere.
NetSteps ==
    <<"spawn watchdog", "watchdog exited", "namespace not ready", "loopback",
      "hosts file", "hosts write", "socket file", "spawn nat", "resolv file",
      "resolv write", "none">>

StepNo(step) == CHOOSE i \in 1..Len(NetSteps) : NetSteps[i] = step

\* The steps taken only if enable_outbound (66-83).
OutboundSteps == {"socket file", "spawn nat", "resolv file", "resolv write"}

\* What each failing statement raises.
StepError(step) ==
    CASE step \in {"spawn watchdog", "spawn nat"} -> "FileNotFoundError"
      [] step \in {"watchdog exited", "namespace not ready", "loopback"} -> "RuntimeError"
      [] step \in {"hosts file", "hosts write", "socket file", "resolv file",
                   "resolv write"} -> "OSError"
      [] OTHER -> "none"

\* A fabric with nothing acquired (38-42).
NoFabric ==
    [namespace_watchdog |-> None, outbound_bridge |-> None, hosts_tmp |-> None,
     resolv_tmp |-> None, bridge_api_socket |-> None,
     procs |-> [c \in NetChildren |-> "none"], files |-> {}, log |-> <<>>]

\* The fabric as lines 45-83 have built it when the statement `failAt`
\* raises (all of it for "none"): an attribute is set once the statement
\* that assigns it has returned.
Acquired(outbound, failAt) ==
    LET n == StepNo(failAt)
        did(step) == n > StepNo(step) /\ (step \in OutboundSteps => outbound)
    IN  [namespace_watchdog |->
             IF did("spawn watchdog") THEN Some("namespace_watchdog") ELSE None,
         outbound_bridge |->
             IF did("spawn nat") THEN Some("outbound_bridge") ELSE None,
         hosts_tmp |-> IF did("hosts file") THEN Some("hosts_tmp") ELSE None,
         resolv_tmp |-> IF did("resolv file") THEN Some("resolv_tmp") ELSE None,
         bridge_api_socket |->
             IF did("socket file") THEN Some("bridge_api_socket") ELSE None,
         procs |-> [c \in NetChildren |->
             CASE c = "namespace_watchdog" /\ failAt = "watchdog exited" -> "reaped"
               [] c = "namespace_watchdog" /\ did("spawn watchdog") -> "running"
               [] c = "outbound_bridge" /\ did("spawn nat") -> "running"
               [] OTHER -> "none"],
         files |-> {f \in NetFiles :
                       \/ f = "hosts_tmp" /\ did("hosts file")
                       \/ f = "bridge_api_socket" /\ did("socket file")
                       \/ f = "resolv_tmp" /\ did("resolv file")},
         log |-> <<>>]

\* The statements of __init__ that return, in the order of lines 45-83, each
\* with the NetSteps entry that stands for its failure and the watchdog PID
\* it is handed: the spawn of the watchdog (45-58),
\* _ensure_network_ready_blocking(self.namespace_watchdog.pid) (59),
\* _ensure_loopback_up(self.namespace_watchdog.pid) (60), the hosts file
\* (62-64) and, under `if enable_outbound:`, the socket file (67), the spawn
\* of slirp4netns --configure <watchdog pid> tap0 (76-80) and the resolv file
\* (81-83).
InitOrder ==
    << [ev |-> "spawn watchdog", step |-> "spawn watchdog", pid |-> None],
       [ev |-> "namespace ready", step |-> "namespace not ready",
        pid |-> Some("namespace_watchdog")],
       [ev |-> "loopback up", step |-> "loopback", pid |-> Some("namespace_watchdog")],
       [ev |-> "hosts file", step |-> "hosts file", pid |-> None],
       [ev |-> "hosts written", step |-> "hosts write", pid |-> None],
       [ev |-> "socket file", step |-> "socket file", pid |-> None],
       [ev |-> "spawn nat", step |-> "spawn nat", pid |-> Some("namespace_watchdog")],
       [ev |-> "resolv file", step |-> "resolv file", pid |-> None],
       [ev |-> "resolv written", step |-> "resolv write", pid |-> None] >>

\* An __init__ that starts slirp4netns right after the watchdog, before the
\* namespace is known to be ready.
InitOrderNatFirst ==
    <<InitOrder[1], InitOrder[6], InitOrder[7], InitOrder[2], InitOrder[3],
      InitOrder[4], InitOrder[5], InitOrder[8], InitOrder[9]>>

\* The statements that have returned when `failAt` raises (all of them for
\* "none"), in order.
StepsDone(order, outbound, failAt) ==
    LET done(e) == /\ StepNo(failAt) > StepNo(e.step)
                   /\ e.step \in OutboundSteps => outbound
        kept == SelectSeq(order, done)
    IN  [i \in 1..Len(kept) |-> [ev |-> kept[i].ev, pid |-> kept[i].pid]]

InitTraceNatFirst(outbound, failAt) == StepsDone(InitOrderNatFirst, outbound, failAt)

InitTrace(outbound, failAt) == StepsDone(InitOrder, outbound, failAt)

\* What terminate / wait(timeout=1.0) / kill / wait do to one child
\* (251-256, 259-264): a child that has exited gets no signal (Popen polls
\* before it signals), one that runs gets SIGTERM and, if the wait of 1 s
\* times out, SIGKILL.  A killed child is taken to exit within the second
\* wait.
TerminateLog(c, state, exitsOnTerm) ==
    CASE state = "running" /\ exitsOnTerm ->
             <<[ev |-> "SIGTERM", on |-> c], [ev |-> "reaped", on |-> c]>>
      [] state = "running" /\ ~exitsOnTerm ->
             <<[ev |-> "SIGTERM", on |-> c], [ev |-> "TimeoutExpired", on |-> c],
               [ev |-> "SIGKILL", on |-> c], [ev |-> "reaped", on |-> c]>>
      [] state = "exited" -> <<[ev |-> "reaped", on |-> c]>>
      [] OTHER -> <<>>

\* A close() that ends the watchdog before the NAT process.
NetCloseLogWatchdogFirst(F, exitsOnTerm) ==
    (IF F.namespace_watchdog # None
       THEN TerminateLog("namespace_watchdog", F.procs["namespace_watchdog"],
                         exitsOnTerm["namespace_watchdog"])
       ELSE <<>>)
    \o (IF F.outbound_bridge # None
          THEN TerminateLog("outbound_bridge", F.procs["outbound_bridge"],
                            exitsOnTerm["outbound_bridge"])
          ELSE <<>>)
    \o (IF F.resolv_tmp # None THEN <<[ev |-> "removed", on |-> "resolv_tmp"]>> ELSE <<>>)
    \o (IF F.hosts_tmp # None THEN <<[ev |-> "removed", on |-> "hosts_tmp"]>> ELSE <<>>)
    \o (IF F.bridge_api_socket # None
          THEN <<[ev |-> "removed", on |-> "bridge_api_socket"]>> ELSE <<>>)

\* What close() does, in statement order (250-274).
NetCloseLog(F, exitsOnTerm) ==
    (IF F.outbound_bridge # None
       THEN TerminateLog("outbound_bridge", F.procs["outbound_bridge"],
                         exitsOnTerm["outbound_bridge"])
       ELSE <<>>)
    \o (IF F.namespace_watchdog # None
          THEN TerminateLog("namespace_watchdog", F.procs["namespace_watchdog"],
                            exitsOnTerm["namespace_watchdog"])
          ELSE <<>>)
    \o (IF F.resolv_tmp # None THEN <<[ev |-> "removed", on |-> "resolv_tmp"]>> ELSE <<>>)
    \o (IF F.hosts_tmp # None THEN <<[ev |-> "removed", on |-> "hosts_tmp"]>> ELSE <<>>)
    \o (IF F.bridge_api_socket # None
          THEN <<[ev |-> "removed", on |-> "bridge_api_socket"]>> ELSE <<>>)

\* SandboxNetwork.close (249-274): the fabric it leaves.
NetClose(F, exitsOnTerm) ==
    LET log == NetCloseLog(F, exitsOnTerm)
    IN  [namespace_watchdog |-> None, outbound_bridge |-> None, hosts_tmp |-> None,
         resolv_tmp |-> None, bridge_api_socket |-> None,
         procs |-> [c \in NetChildren |->
                      IF \E i \in 1..Len(log) : log[i] = [ev |-> "reaped", on |-> c]
                        THEN "reaped" ELSE F.procs[c]],
         files |-> {f \in F.files :
                      ~\E i \in 1..Len(log) : log[i] = [ev |-> "removed", on |-> f]},
         log |-> log]

\* An __init__ that lets the error through without closing.
ExceptHandlerOnlyRaises(F, exitsOnTerm) == F

\* except Exception: self.close(); raise (84-86).
ExceptHandler(F, exitsOnTerm) == NetClose(F, exitsOnTerm)

\* if not system_supports_slirp4netns(): raise ValueError (33-36).
ToolMissing(found, outbound) == ~found

\* SandboxNetwork.bwrap_args (136-140).
bwrap_args(F) ==
    <<"--ro-bind", F.hosts_tmp[1], "/etc/hosts", "--share-net", "--cap-add",
      "CAP_NET_RAW">>
    \o (IF F.resolv_tmp # None
          THEN <<"--ro-bind", F.resolv_tmp[1], "/etc/resolv.conf">> ELSE <<>>)

NetworkInit ==
    /\ netPc = "new"
    /\ slirpFound \in BOOLEAN
    /\ enable_outbound = FALSE
    /\ fabric = NoFabric
    /\ netErr = "none"
    /\ failedStep = "none"
    /\ apiListening = FALSE
    /\ nNetCloses = 0
    /\ fpPc = "idle"
    /\ fpResult = "none"
    /\ elapsed = 0
    /\ sleeps = <<>>
    /\ nForwards = 0
    /\ attempts = 0
    /\ nRequests = 0
    /\ initLog = <<>>
    /\ fpArgs = None
    /\ lastRequest = None
    /\ sockLog = <<>>
    /\ openSocks = 0

\* The network part with no SandboxNetwork ever constructed.
NetworkIdle ==
    /\ NetworkInit
    /\ slirpFound = TRUE

\* SandboxNetwork.__init__ (32-86) with enable_outbound = outbound, the
\* statement `failAt` raising; `exitsOnTerm` says which child exits within
\* 1 s of a SIGTERM.
NetConstruct(outbound, failAt, exitsOnTerm) ==
    /\ netPc = "new"
    /\ failAt \in OutboundSteps => outbound
    /\ enable_outbound' = outbound
    /\ IF ToolMissing(slirpFound, outbound)
         THEN /\ netPc' = "failed"
              /\ netErr' = "ValueError"
              /\ UNCHANGED <<fabric, failedStep, nNetCloses, initLog>>
         ELSE IF failAt # "none"
           THEN /\ netPc' = "failed"
                /\ netErr' = StepError(failAt)
                /\ failedStep' = failAt
                /\ initLog' = InitTrace(outbound, failAt)
                /\ fabric' = ExceptHandler(Acquired(outbound, failAt), exitsOnTerm)
                /\ nNetCloses' = nNetCloses + 1
           ELSE /\ netPc' = "up"
                /\ initLog' = InitTrace(outbound, "none")
                /\ fabric' = Acquired(outbound, "none")
                /\ UNCHANGED <<netErr, failedStep, nNetCloses>>
    /\ UNCHANGED <<slirpFound, apiListening, fpPc, fpResult, elapsed, sleeps,
                   nForwards, attempts, nRequests, fpArgs, lastRequest, sockLog,
                   openSocks>>
    /\ UNCHANGED notNetwork

\* A child of the fabric exits by itself.
NetChildExits(c) ==
    /\ fabric.procs[c] = "running"
    /\ fabric' = [fabric EXCEPT !.procs[c] = "exited"]
    /\ apiListening' = IF c = "outbound_bridge" THEN FALSE ELSE apiListening
    /\ UNCHANGED <<netPc, slirpFound, enable_outbound, netErr, failedStep,
                   nNetCloses, fpPc, fpResult, elapsed, sleeps, nForwards,
                   attempts, nRequests, initLog, fpArgs, lastRequest, sockLog,
                   openSocks>>
    /\ UNCHANGED notNetwork

\* slirp4netns starts to listen on its --api-socket.
ApiSocketReady ==
    /\ fabric.procs["outbound_bridge"] = "running"
    /\ ~apiListening
    /\ apiListening' = TRUE
    /\ UNCHANGED <<netPc, slirpFound, enable_outbound, fabric, netErr, failedStep,
                   nNetCloses, fpPc, fpResult, elapsed, sleeps, nForwards,
                   attempts, nRequests, initLog, fpArgs, lastRequest, sockLog,
                   openSocks>>
    /\ UNCHANGED notNetwork

\* A forward_port that goes on to connect whatever the fabric has.
NoBridgeNever(b) == FALSE

\* if self.outbound_bridge is None (143).
NoBridge(b) == b = None

\* The calls of forward_port made: a TCP forward, a UDP forward with the
\* two ports the other way round, and a protocol slirp4netns does not have.
ForwardArgs == {<<80, 8080, "tcp">>, <<8080, 80, "udp">>, <<80, 8080, "icmp">>}

\* msg = json.dumps({...}) + "\n" (146-157): the JSON object and the newline
\* after it; json.dumps puts no raw newline into its output.
msg(sandbox_port, host_port, proto) ==
    <<[execute |-> "add_hostfwd",
       arguments |-> [proto |-> proto, host_addr |-> "127.0.0.1",
                      host_port |-> host_port, guest_addr |-> "10.0.2.100",
                      guest_port |-> sandbox_port]],
      "\n">>

\* How the exchange on a connected socket goes (159-163).
Exchanges == {"reply", "send fails", "empty reply", "malformed reply"}

\* An exchange that closes its socket only when all went well.
ExchangeLogNoFinally(exch) ==
    CASE exch = "reply" -> <<"sendall", "recv", "json.loads", "close">>
      [] exch = "send fails" -> <<"sendall: OSError">>
      [] OTHER -> <<"sendall", "recv", "json.loads: JSONDecodeError">>

\* try: sock.sendall(msg.encode()); return json.loads(sock.recv(4096))
\* finally: sock.close() (159-163).
ExchangeLog(exch) ==
    CASE exch = "reply" -> <<"sendall", "recv", "json.loads", "close">>
      [] exch = "send fails" -> <<"sendall: OSError", "close">>
      [] OTHER -> <<"sendall", "recv", "json.loads: JSONDecodeError", "close">>

\* What forward_port returns or raises after the exchange.
ExchangeResult(exch) ==
    CASE exch = "reply" -> "response"
      [] exch = "send fails" -> "OSError"
      [] OTHER -> "JSONDecodeError"

\* A connect attempt that fails: socket.socket(), sock.connect raising
\* OSError, sock.close() (177-183).
FailedConnectLog == <<"socket", "connect: OSError", "close">>

\* sock = socket.socket(...); sock.connect(socket_path); return sock
\* (177-180).
ConnectedLog == <<"socket", "connect">>

\* The sockets a log opens, less those it closes.
StillOpen(log) ==
    Cardinality({i \in 1..Len(log) : log[i] = "socket"})
      - Cardinality({i \in 1..Len(log) : log[i] = "close"})

\* SandboxNetwork.forward_port (142-158): the check, and the start of
\* _connect_bridge_api_socket (165-171).
ForwardPort(sandbox_port, host_port, proto) ==
    /\ netPc = "up"
    /\ fpPc = "idle"
    /\ nForwards < MaxForwards
    /\ nForwards' = nForwards + 1
    /\ fpArgs' = Some(<<sandbox_port, host_port, proto>>)
    /\ lastRequest' = None
    /\ sockLog' = <<>>
    /\ elapsed' = 0
    /\ sleeps' = <<>>
    /\ attempts' = 0
    /\ IF NoBridge(fabric.outbound_bridge)
         THEN /\ fpResult' = "RuntimeError: requires enable_outbound"
              /\ fpPc' = "idle"
         ELSE /\ fpResult' = "none"
              /\ fpPc' = "connecting"
    /\ UNCHANGED <<netPc, slirpFound, enable_outbound, fabric, netErr, failedStep,
                   apiListening, nNetCloses, nRequests, initLog, openSocks>>
    /\ UNCHANGED notNetwork

\* A retry that doubles its delay each time, up to what is left.
NextSleepDoubling(past, left) ==
    LET want == IF past = <<>> THEN SleepTicks ELSE 2 * past[Len(past)]
    IN  IF want < left THEN want ELSE left

\* time.sleep(0.01) (187).
NextSleep(past, left) == SleepTicks

\* By how many ticks a sleep can overrun, and by how many all the sleeps of
\* one call together.
Lateness == {0, 1}
MaxOverrun == 2

\* The sum of a sequence of delays.
RECURSIVE SumOf(_)
SumOf(seq) == IF seq = <<>> THEN 0 ELSE seq[1] + SumOf(Tail(seq))

\* One turn of the loop of _connect_bridge_api_socket (173-187), and for a
\* connected socket the rest of forward_port (159-163), which goes as
\* `exch` says; a sleep ends `late` ticks after its time.
ConnectAttempt(late, exch) ==
    /\ fpPc = "connecting"
    /\ elapsed - SumOf(sleeps) + late <= MaxOverrun
    /\ IF fabric.procs["outbound_bridge"] # "running"
         THEN /\ fpResult' = "RuntimeError: slirp4netns exited"
              /\ fpPc' = "idle"
              /\ fabric' = [fabric EXCEPT !.procs["outbound_bridge"] =
                               IF @ = "exited" THEN "reaped" ELSE @]
              /\ sockLog' = <<>>
              /\ UNCHANGED <<attempts, nRequests, elapsed, sleeps, lastRequest>>
         ELSE /\ attempts' = attempts + 1
              /\ UNCHANGED fabric
              /\ IF apiListening
                   THEN /\ sockLog' = ConnectedLog \o ExchangeLog(exch)
                        /\ fpResult' = ExchangeResult(exch)
                        /\ fpPc' = "idle"
                        /\ IF exch = "send fails"
                             THEN UNCHANGED <<nRequests, lastRequest>>
                             ELSE /\ nRequests' = nRequests + 1
                                  /\ lastRequest' =
                                        Some(msg(fpArgs[1][1], fpArgs[1][2], fpArgs[1][3]))
                        /\ UNCHANGED <<elapsed, sleeps>>
                   ELSE /\ sockLog' = FailedConnectLog
                        /\ UNCHANGED <<nRequests, lastRequest>>
                        /\ IF elapsed >= ConnectTimeout
                             THEN /\ fpResult' = "RuntimeError: timed out"
                                  /\ fpPc' = "idle"
                                  /\ UNCHANGED <<elapsed, sleeps>>
                             ELSE /\ sleeps' = Append(sleeps,
                                        NextSleep(sleeps, ConnectTimeout - elapsed))
                                  /\ elapsed' = elapsed + sleeps'[Len(sleeps')] + late
                                  /\ UNCHANGED <<fpResult, fpPc>>
    /\ openSocks' = openSocks + StillOpen(sockLog')
    /\ UNCHANGED <<netPc, slirpFound, enable_outbound, netErr, failedStep,
                   apiListening, nNetCloses, nForwards, initLog, fpArgs>>
    /\ UNCHANGED notNetwork

\* SandboxNetwork.close (249-274) called by the owner of the fabric.
NetCloseCall(exitsOnTerm) ==
    /\ netPc = "up"
    /\ fpPc = "idle"
    /\ nNetCloses < MaxNetCloses
    /\ nNetCloses' = nNetCloses + 1
    /\ fabric' = NetClose(fabric, exitsOnTerm)
    /\ apiListening' = FALSE
    /\ UNCHANGED <<netPc, slirpFound, enable_outbound, netErr, failedStep, fpPc,
                   fpResult, elapsed, sleeps, nForwards, attempts, nRequests,
                   initLog, fpArgs, lastRequest, sockLog, openSocks>>
    /\ UNCHANGED notNetwork

NextNetwork ==
    \/ \E outbound \in BOOLEAN, i \in 1..Len(NetSteps),
          exitsOnTerm \in [NetChildren -> BOOLEAN] :
          NetConstruct(outbound, NetSteps[i], exitsOnTerm)
    \/ \E c \in NetChildren : NetChildExits(c)
    \/ ApiSocketReady
    \/ \E a \in ForwardArgs : ForwardPort(a[1], a[2], a[3])
    \/ \E late \in Lateness, exch \in Exchanges : ConnectAttempt(late, exch)
    \/ \E exitsOnTerm \in [NetChildren -> BOOLEAN] : NetCloseCall(exitsOnTerm)

(***************************************************************************)
(* Claims about the network fabric, checked under SpecNetwork and, for the *)
(* end of the connect loop, under SpecNetworkFair.                         *)
(***************************************************************************)

\* The events of one close(): nothing on the watchdog before the last event
\* on the NAT process, no file removed before the last event on a process, a
\* SIGKILL only right after the wait that followed the SIGTERM timed out, and
\* every child signalled is reaped.
NetOrdered(log) ==
    /\ \A i, j \in 1..Len(log) : i < j =>
          /\ ~(log[i].on = "namespace_watchdog" /\ log[j].on = "outbound_bridge")
          /\ ~(log[i].ev = "removed" /\ log[j].ev # "removed")
    /\ \A i \in 1..Len(log) :
          /\ log[i].ev = "SIGKILL" =>
                /\ i > 2
                /\ log[i - 1] = [ev |-> "TimeoutExpired", on |-> log[i].on]
                /\ log[i - 2] = [ev |-> "SIGTERM", on |-> log[i].on]
          /\ log[i].ev = "TimeoutExpired" =>
                /\ i < Len(log)
                /\ log[i + 1] = [ev |-> "SIGKILL", on |-> log[i].on]
          /\ log[i].ev \in {"SIGTERM", "SIGKILL"} =>
                \E j \in (i + 1)..Len(log) : log[j] = [ev |-> "reaped", on |-> log[i].on]

\* C22: every close() ends the NAT process (SIGTERM, and SIGKILL only after
\* the wait of 1 s timed out) and has reaped it before it does anything to
\* the watchdog, ends the watchdog the same way, and removes the temp files
\* only after both; it leaves no child running and no temp file; and a
\* close() after a close() signals no process and removes no file.
C22_CloseOrderAndIdempotence ==
    [][(nNetCloses' = nNetCloses + 1) =>
          /\ NetOrdered(fabric'.log)
          /\ \A c \in NetChildren : fabric[c] # None => fabric'.procs[c] = "reaped"
          /\ \A f \in NetFiles : fabric[f] # None => f \notin fabric'.files
          /\ (netPc = "up" /\ nNetCloses >= 1) =>
                /\ fabric'.log = <<>>
                /\ fabric'.procs = fabric.procs
                /\ fabric'.files = fabric.files]_vars

\* A close() on a fabric with outbound had to kill the NAT process, then
\* ended the watchdog with SIGTERM and removed the three files.
C22_Witness ==
    /\ netPc = "up"
    /\ nNetCloses = 1
    /\ Len(fabric.log) = 9
    /\ fabric.log[3] = [ev |-> "SIGKILL", on |-> "outbound_bridge"]
    /\ fabric.log[5] = [ev |-> "SIGTERM", on |-> "namespace_watchdog"]
    /\ fabric.files = {}

\* C23: every forward_port on a fabric whose outbound_bridge is None raises
\* the RuntimeError with no connect attempted and no request written, and
\* leaves the fabric as it was.
C23_ForwardNeedsOutbound ==
    [][(nForwards' = nForwards + 1 /\ fabric.outbound_bridge = None) =>
          /\ fpResult' = "RuntimeError: requires enable_outbound"
          /\ fpPc' = "idle"
          /\ attempts' = 0
          /\ UNCHANGED <<fabric, nRequests, apiListening, netPc, nNetCloses>>]_vars

\* forward_port was refused on a fabric constructed without outbound and not
\* closed.
C23_Witness ==
    /\ fpResult = "RuntimeError: requires enable_outbound"
    /\ netPc = "up"
    /\ ~enable_outbound
    /\ nNetCloses = 0
    /\ fabric.namespace_watchdog # None

\* The sum of the first n delays.
RECURSIVE SleptBy(_)
SleptBy(n) == IF n = 0 THEN 0 ELSE SleptBy(n - 1) + sleeps[n]

\* How a finished connect ended: with a connected socket after an attempt on
\* a listening NAT process (forward_port then went on to the exchange), with
\* the error for a NAT process that is not running, or with the timeout
\* error after an attempt made once the deadline had passed and not before.
ConnectEnded ==
    /\ fpPc = "idle"
    /\ \/ /\ fpResult \in {ExchangeResult(exch) : exch \in Exchanges}
          /\ attempts >= 1
          /\ apiListening
       \/ /\ fpResult = "RuntimeError: slirp4netns exited"
          /\ fabric.procs["outbound_bridge"] # "running"
       \/ /\ fpResult = "RuntimeError: timed out"
          /\ attempts >= 1
          /\ attempts = Len(sleeps) + 1
          /\ elapsed >= ConnectTimeout
          /\ Len(sleeps) >= 1 => SleptBy(Len(sleeps) - 1) < ConnectTimeout

\* C24 as the claim states it, for the turns of the loop: a connect that
\* ends, ends in one of the three ways, and the delays between its attempts
\* back off exponentially, each twice the one before unless the deadline
\* cuts it short.
C24_ConnectEndsBackingOff ==
    [][(fpPc = "connecting") =>
          /\ fpPc' = "idle" => ConnectEnded'
          /\ \A i \in 2..Len(sleeps') :
                \/ sleeps'[i] = 2 * sleeps'[i - 1]
                \/ SleptBy(i)' >= ConnectTimeout]_vars

\* C24: every connect ends, in one of the three ways (the NAT process is
\* looked at before every attempt, the timeout is reported only after an
\* attempt made past the deadline), and failed attempts are retried after a
\* fixed delay of 10 ms each, with no backoff.
C24_ConnectEndsFixedDelay ==
    (fpPc = "connecting") ~>
        /\ ConnectEnded
        /\ \A i \in 1..Len(sleeps) : sleeps[i] = SleepTicks

\* A connect timed out after its first attempt and a hundred retries.
C24_Witness ==
    /\ fpResult = "RuntimeError: timed out"
    /\ attempts = 101
    /\ Len(sleeps) = 100

\* C27: the construction of a fabric fails for a missing slirp4netns exactly
\* when outbound is asked for, so a fabric without outbound is constructed on
\* a host without slirp4netns.
C27_NatToolNeededIffOutbound ==
    netPc # "new" => (netErr = "ValueError" <=> (enable_outbound /\ ~slirpFound))

\* C30: when a statement of __init__ after the spawn of the watchdog has
\* raised, the error reaches the caller with the NAT process and the watchdog
\* reaped, every temp file removed and every attribute None.
C30_FailedInitRollsBack ==
    (netPc = "failed" /\ StepNo(failedStep) > StepNo("spawn watchdog")
                      /\ failedStep # "none") =>
        /\ \A c \in NetChildren : fabric.procs[c] \in {"none", "reaped"}
        /\ fabric.files = {}
        /\ \A a \in NetChildren \cup NetFiles : fabric[a] = None

\* The write of the resolv file failed: the NAT process had to be killed, and
\* the watchdog and the three files went too.
C30_Witness ==
    /\ netPc = "failed"
    /\ failedStep = "resolv write"
    /\ \E i \in 1..Len(fabric.log) :
          fabric.log[i] = [ev |-> "SIGKILL", on |-> "outbound_bridge"]
    /\ \E i \in 1..Len(fabric.log) :
          fabric.log[i] = [ev |-> "reaped", on |-> "namespace_watchdog"]
    /\ \E i \in 1..Len(fabric.log) :
          fabric.log[i] = [ev |-> "removed", on |-> "resolv_tmp"]

\* Where the statement `e` stands in the log of __init__.
InitAt(e) == {i \in 1..Len(initLog) : initLog[i].ev = e}

\* Statement b returned only after statement a had.
InitBefore(a, b) == \A j \in InitAt(b) : \E i \in InitAt(a) : i < j

\* C31: __init__ goes down -> namespace_ready -> outbound_ready: the
\* namespace-ready wait returned before loopback was brought up, loopback
\* was up before the hosts file was written, slirp4netns was spawned only
\* after all of these, only with enable_outbound and on the PID of the
\* watchdog; and in no state does the NAT process run, or the fabric hold
\* one, without the namespace having been found ready.
C31_ConstructionInOrder ==
    /\ InitBefore("spawn watchdog", "namespace ready")
    /\ InitBefore("namespace ready", "loopback up")
    /\ InitBefore("loopback up", "hosts written")
    /\ InitBefore("hosts written", "spawn nat")
    /\ \A i \in InitAt("spawn nat") :
          /\ enable_outbound
          /\ initLog[i].pid = Some("namespace_watchdog")
    /\ (fabric.procs["outbound_bridge"] = "running" \/ fabric.outbound_bridge # None) =>
          InitAt("namespace ready") # {}
    /\ netPc = "up" =>
          /\ InitAt("namespace ready") # {}
          /\ InitAt("loopback up") # {}
          /\ InitAt("hosts written") # {}
          /\ enable_outbound <=> InitAt("spawn nat") # {}

\* A fabric with outbound has been constructed and its NAT process runs.
C31_Witness ==
    /\ netPc = "up"
    /\ enable_outbound
    /\ fabric.procs["outbound_bridge"] = "running"
    /\ Len(initLog) = 9
    /\ initLog[7] = [ev |-> "spawn nat", pid |-> Some("namespace_watchdog")]

\* C33: every request forward_port(sandbox_port, host_port, proto) has
\* written is one JSON object followed by a newline, with execute =
\* add_hostfwd, host_addr = 127.0.0.1, guest_addr = 10.0.2.100, guest_port
\* the sandbox_port of the call, host_port its host_port, and proto one of
\* tcp and udp.
C33_RequestAsStated ==
    lastRequest # None =>
        LET r == lastRequest[1]
            a == fpArgs[1]
        IN  /\ Len(r) = 2
            /\ r[2] = "\n"
            /\ r[1].execute = "add_hostfwd"
            /\ r[1].arguments.host_addr = "127.0.0.1"
            /\ r[1].arguments.guest_addr = "10.0.2.100"
            /\ r[1].arguments.guest_port = a[1]
            /\ r[1].arguments.host_port = a[2]
            /\ r[1].arguments.proto \in {"tcp", "udp"}

\* C40: forward_port holds no open socket when it has returned or raised,
\* however the exchange went, nor between two attempts of its connect loop:
\* whatever a turn opened it closed, as the last thing it did.
C40_NoSocketLeftOpen ==
    /\ openSocks = 0
    /\ StillOpen(sockLog) = 0
    /\ sockLog # <<>> => sockLog[Len(sockLog)] = "close"

\* After a connect attempt that failed, one that connected got a reply that
\* is not JSON.
C40_Witness ==
    /\ fpPc = "idle"
    /\ attempts >= 2
    /\ fpResult = "JSONDecodeError"
    /\ sockLog = <<"socket", "connect", "sendall", "recv",
                   "json.loads: JSONDecodeError", "close">>
    /\ nRequests = 1

\* The fabrics a construction gives: without and with outbound.
UpFabrics == {Acquired(outbound, "none") : outbound \in BOOLEAN}

\* C25 (checked under SpecPty): the argv of a child spawned with the network
\* requested has the bwrap_args of a fabric (its hosts file bound at
\* /etc/hosts, --share-net, --cap-add CAP_NET_RAW, and its resolv file bound
\* at /etc/resolv.conf exactly when the fabric has outbound); the argv of a
\* child spawned without it has none of these.
C25_NetworkFlagsFromFabric ==
    hPc = "handle" =>
        IF lastCall[2].allow_network
          THEN \E F \in UpFabrics :
                  /\ HasWords(spawn.argv, bwrap_args(F))
                  /\ F.resolv_tmp = None => ~HasFlag(spawn.argv, "/etc/resolv.conf")
          ELSE /\ ~HasFlag(spawn.argv, "--share-net")
               /\ ~HasFlag(spawn.argv, "--cap-add")
               /\ ~HasFlag(spawn.argv, "/etc/hosts")
               /\ ~HasFlag(spawn.argv, "/etc/resolv.conf")

(***************************************************************************)
(* PART 7: network.py, one call of _ensure_network_ready_blocking          *)
(* (189-224), the wait that __init__ makes on the watchdog it has just     *)
(* spawned, with the watchdog and its namespaces as the environment.       *)
(***************************************************************************)

MaxReadyCalls == 2    \* calls of _ensure_network_ready_blocking

\* timeout: float = 0.5 (189) in ticks of 10 ms, and the timeouts of the
\* calls: the default and a deadline of zero.
ReadyTimeout == 50
ReadyTimeouts == {0, ReadyTimeout}

\* /proc/<pid>/ns/user and /proc/<pid>/ns/net (190-191).
NsPaths == {"user_ns", "net_ns"}

\* A wait that tests its deadline before it looks at anything.
FirstStepDeadline == "deadline"

\* while True: the first statement of the body is the poll of line 196.
FirstStep == "poll"

ReadyInit ==
    /\ rwPc = "idle"
    /\ rwTimeout = 0
    /\ rwElapsed = 0
    /\ watchdog = "running"
    /\ nsPaths = NsPaths
    /\ nsReady \in BOOLEAN
    /\ last_error = ""
    /\ rwResult = "none"
    /\ turnLog = <<>>
    /\ nReadyCalls = 0

\* The wait never called.
ReadyIdle ==
    /\ ReadyInit
    /\ nsReady = TRUE

\* _ensure_network_ready_blocking(ns_pid, timeout) is entered: deadline =
\* time.monotonic() + timeout, last_error = "" (190-193).
ReadyCall(timeout) ==
    /\ rwPc = "idle"
    /\ nReadyCalls < MaxReadyCalls
    /\ nReadyCalls' = nReadyCalls + 1
    /\ rwPc' = FirstStep
    /\ rwTimeout' = timeout
    /\ rwElapsed' = 0
    /\ last_error' = ""
    /\ rwResult' = "none"
    /\ turnLog' = <<>>
    /\ UNCHANGED <<watchdog, nsPaths, nsReady>>
    /\ UNCHANGED notReady

\* if self.namespace_watchdog.poll() is not None: raise RuntimeError
\* (196-197).
ReadyPoll ==
    /\ rwPc = "poll"
    /\ IF watchdog # "running"
         THEN /\ turnLog' = <<"poll: exited">>
              /\ rwResult' = "RuntimeError: watchdog exited"
              /\ rwPc' = "idle"
         ELSE /\ turnLog' = <<"poll: running">>
              /\ rwPc' = "check"
              /\ UNCHANGED rwResult
    /\ UNCHANGED <<rwTimeout, rwElapsed, watchdog, nsPaths, nsReady, last_error,
                   nReadyCalls>>
    /\ UNCHANGED notReady

\* The existence test of line 199 and, when both paths exist, the nsenter
\* probe of lines 202-218: it exits 0 only in namespaces that are set up.
ReadyCheck(probeOk) ==
    /\ rwPc = "check"
    /\ probeOk => nsReady /\ watchdog = "running"
    /\ IF nsPaths # NsPaths
         THEN /\ turnLog' = Append(turnLog, "paths: missing")
              /\ last_error' = "Namespace paths not present yet"
              /\ rwPc' = "deadline"
              /\ UNCHANGED rwResult
         ELSE IF probeOk
           THEN /\ turnLog' = turnLog \o <<"paths: exist", "probe: 0">>
                /\ rwResult' = "returned"
                /\ rwPc' = "idle"
                /\ UNCHANGED last_error
           ELSE /\ turnLog' = turnLog \o <<"paths: exist", "probe: 1">>
                /\ last_error' = "nsenter probe failed"
                /\ rwPc' = "deadline"
                /\ UNCHANGED rwResult
    /\ UNCHANGED <<rwTimeout, rwElapsed, watchdog, nsPaths, nsReady, nReadyCalls>>
    /\ UNCHANGED notReady

\* if time.monotonic() >= deadline: raise RuntimeError (220-223).
ReadyDeadline ==
    /\ rwPc = "deadline"
    /\ IF rwElapsed >= rwTimeout
         THEN /\ turnLog' = Append(turnLog, "deadline: passed")
              /\ rwResult' = "RuntimeError: not ready"
              /\ rwPc' = "idle"
         ELSE /\ turnLog' = Append(turnLog, "deadline: not passed")
              /\ rwPc' = "sleep"
              /\ UNCHANGED rwResult
    /\ UNCHANGED <<rwTimeout, rwElapsed, watchdog, nsPaths, nsReady, last_error,
                   nReadyCalls>>
    /\ UNCHANGED notReady

\* time.sleep(0.01) (224), ending `late` ticks after its time.
ReadySleep(late) ==
    /\ rwPc = "sleep"
    /\ rwElapsed' = rwElapsed + SleepTicks + late
    /\ rwPc' = "poll"
    /\ UNCHANGED <<rwTimeout, watchdog, nsPaths, nsReady, last_error, rwResult,
                   turnLog, nReadyCalls>>
    /\ UNCHANGED notReady

\* The next statement of a call that is under way.
ReadyStep ==
    \/ ReadyPoll
    \/ \E probeOk \in BOOLEAN : ReadyCheck(probeOk)
    \/ ReadyDeadline
    \/ \E late \in Lateness : ReadySleep(late)

\* unshare has made the namespaces of the watchdog and mapped root.
NamespaceSetUp ==
    /\ watchdog = "running"
    /\ ~nsReady
    /\ nsReady' = TRUE
    /\ UNCHANGED <<rwPc, rwTimeout, rwElapsed, watchdog, nsPaths, last_error,
                   rwResult, turnLog, nReadyCalls>>
    /\ UNCHANGED notReady

\* The watchdog exits: /proc/<pid>/ns/net of a process that has exited and
\* is not reaped no longer resolves.
WatchdogExits ==
    /\ watchdog = "running"
    /\ watchdog' = "exited"
    /\ nsPaths' = nsPaths \ {"net_ns"}
    /\ UNCHANGED <<rwPc, rwTimeout, rwElapsed, nsReady, last_error, rwResult,
                   turnLog, nReadyCalls>>
    /\ UNCHANGED notReady

NextReady ==
    \/ \E timeout \in ReadyTimeouts : ReadyCall(timeout)
    \/ ReadyStep
    \/ NamespaceSetUp
    \/ WatchdogExits

(***************************************************************************)
(* The claim about the wait, checked under SpecReadyFair.                  *)
(***************************************************************************)

\* What the wait has done when it has ended, and in every turn: it returns
\* from a turn that polled the watchdog, found both paths and had a probe
\* exit 0; it raises for the watchdog from a poll that found it exited; it
\* raises not-ready from a turn that polled, looked for the paths (and
\* probed if they were there) and then found the deadline passed; and no
\* probe runs in a turn that has not polled the watchdog first.
ReadyWaitRight ==
    /\ rwResult = "returned" =>
          turnLog = <<"poll: running", "paths: exist", "probe: 0">>
    /\ rwResult = "RuntimeError: watchdog exited" =>
          /\ turnLog = <<"poll: exited">>
          /\ watchdog = "exited"
    /\ rwResult = "RuntimeError: not ready" =>
          /\ rwElapsed >= rwTimeout
          /\ turnLog \in
               { <<"poll: running", "paths: missing", "deadline: passed">>,
                 <<"poll: running", "paths: exist", "probe: 1", "deadline: passed">> }
    /\ \A i \in 1..Len(turnLog) :
          turnLog[i] \in {"probe: 0", "probe: 1"} =>
             /\ i = 3
             /\ turnLog[1] = "poll: running"
             /\ turnLog[2] = "paths: exist"
    /\ (rwPc = "idle" /\ nReadyCalls > 0) => rwResult # "none"
    /\ rwPc # "idle" => rwResult = "none"

\* C32: every call of the blocking wait ends, in one of three ways: it
\* returns only after both namespace paths exist and an nsenter probe exited
\* 0; it raises if the watchdog has exited, which it looks at before every
\* probe; or it raises not-ready once the deadline has passed, and never
\* before a turn has looked for the paths or probed, also with a deadline of
\* zero.
C32_ReadyWaitEnds ==
    /\ []ReadyWaitRight
    /\ (rwPc # "idle") ~> (rwPc = "idle" /\ rwResult # "none")

\* A wait with a deadline of zero raised not-ready after its one probe.
C32_Witness ==
    /\ rwResult = "RuntimeError: not ready"
    /\ rwTimeout = 0
    /\ rwElapsed = 0
    /\ turnLog = <<"poll: running", "paths: exist", "probe: 1", "deadline: passed">>

(***************************************************************************)
(* The specifications: one per part, the other parts idle.                 *)
(***************************************************************************)
InitProc ==
    /\ ProcInit
    /\ StreamIdle
    /\ RootfsIdle
    /\ SandboxIdle
    /\ PtyIdle
    /\ NetworkIdle
    /\ ReadyIdle

SpecProc == InitProc /\ [][NextProc]_vars

InitStream ==
    /\ StreamInit
    /\ ProcIdle
    /\ RootfsIdle
    /\ SandboxIdle
    /\ PtyIdle
    /\ NetworkIdle
    /\ ReadyIdle

InitRootfs ==
    /\ RootfsInit
    /\ ProcIdle
    /\ StreamIdle
    /\ SandboxIdle
    /\ PtyIdle
    /\ NetworkIdle
    /\ ReadyIdle

InitSandbox ==
    /\ SandboxInit
    /\ ProcIdle
    /\ StreamIdle
    /\ RootfsIdle
    /\ PtyIdle
    /\ NetworkIdle
    /\ ReadyIdle

SpecStream == InitStream /\ [][NextStream]_vars

SpecRootfs == InitRootfs /\ [][NextRootfs]_vars

SpecSandbox == InitSandbox /\ [][NextSandbox]_vars

InitPty ==
    /\ PtyInit
    /\ ProcIdle
    /\ StreamIdle
    /\ RootfsIdle
    /\ SandboxIdle
    /\ NetworkIdle
    /\ ReadyIdle

SpecPty == InitPty /\ [][NextPty]_vars

InitNetwork ==
    /\ NetworkInit
    /\ ProcIdle
    /\ StreamIdle
    /\ RootfsIdle
    /\ SandboxIdle
    /\ PtyIdle
    /\ ReadyIdle

SpecNetwork == InitNetwork /\ [][NextNetwork]_vars

\* The connect loop is a blocking call: it takes its next turn.
SpecNetworkFair ==
    SpecNetwork
      /\ WF_vars(\E late \in Lateness, exch \in Exchanges : ConnectAttempt(late, exch))

InitReady ==
    /\ ReadyInit
    /\ ProcIdle
    /\ StreamIdle
    /\ RootfsIdle
    /\ SandboxIdle
    /\ PtyIdle
    /\ NetworkIdle

SpecReady == InitReady /\ [][NextReady]_vars

\* The wait is a blocking call: it takes its next statement.
SpecReadyFair == SpecReady /\ WF_vars(ReadyStep)

\* The whole program: the parts side by side.
Init ==
    /\ ProcInit
    /\ StreamInit
    /\ RootfsInit
    /\ SandboxInit
    /\ PtyInit
    /\ NetworkInit
    /\ ReadyInit

Next ==
    \/ NextProc
    \/ NextStream
    \/ NextRootfs
    \/ NextSandbox
    \/ NextPty
    \/ NextNetwork
    \/ NextReady

Spec == Init /\ [][Next]_vars


=============================================================================
